---- MODULE Spec2Model ----
(***************************************************************************)
(* A model of gdownjs: the single-file download orchestrator               *)
(* (downloadFile / performDownloadRequest), the folder crawler             *)
(* (downloadFolder / downloadFolderRecursive / fetchDriveFolderEntries),   *)
(* the buffered text fetch (fetchText), the cookie jar and the metadata    *)
(* cache.                                                                  *)
(*                                                                         *)
(* Strings are modelled by what the code asks of them: a response body is  *)
(* the set of phrases it contains plus the confirmation token a pattern    *)
(* would extract; a file name is a sequence of tokens (stem, " (n)"        *)
(* counters, extension) so that ensureUniqueName's splitting and joining   *)
(* is computed, not assumed.                                               *)
(***************************************************************************)
EXTENDS Integers, Sequences, FiniteSets, TLC

\* ------------------------------------------------------------------------
\* Program constants
\* ------------------------------------------------------------------------
maxAttempts == 15

MAX_FILES_PER_FOLDER == 50

\* ------------------------------------------------------------------------
\* Bounds of the model
\* ------------------------------------------------------------------------
\* downloadFile calls made in one session of the download specification
MaxCalls == 2

\* the URLs a request can be redirected to, beside the download URL
MaxHops == 1

\* downloads whose stream breaks after the output file was opened, per session
MaxPartial == 1

\* the nested downloadFolderRecursive calls that are followed
MaxDepth == 4

Min(a, b) == IF a <= b THEN a ELSE b

\* ------------------------------------------------------------------------
\* File names: sequences of tokens.  <<"report", ".pdf">> is report.pdf and
\* <<"report", "(1)", ".pdf">> is "report (1).pdf".
\* ------------------------------------------------------------------------
NoName == <<>>

Exts == {".pdf", ".bin"}

\* the text " (n)" that ensureUniqueName inserts
CounterText(n) == "(" \o ToString(n) \o ")"

\* path.extname: the last "." part, unless the name starts with it
extname(name) ==
    IF Len(name) > 1 /\ name[Len(name)] \in Exts THEN <<name[Len(name)]>> ELSE <<>>

\* path.basename(name, ext)
basename(name, ext) == SubSeq(name, 1, Len(name) - Len(ext))

VARIABLES
    files,        \* the local files: a function from paths to content
    dirs,         \* the local directories: a set of paths
    cache,        \* ~/.gdown_cache: the set of saved metadata records
    cookieStore,  \* ~/.gdown_cookies: the set of saved name=value lines
    dl,           \* the activation of downloadFile: its locals and position
    jar,          \* the cookie jar of that activation
    calls,        \* downloadFile calls made by the session so far
    partials,     \* downloads of the session that broke after the response
    seen,         \* the cookies set by all responses of the session so far
    lastReq,      \* the Cookie header of the request issued last
    prev,         \* the previous downloadFile call and how it ended
    filesAtStart  \* the local files when the current call started

dvars == <<files, dirs, cache, cookieStore, dl, jar, calls, partials, seen,
           lastReq, prev, filesAtStart>>

\* A path is a sequence of names; <<>> is the working directory.
dirname(path) == SubSeq(path, 1, Len(path) - 1)

lastname(path) == path[Len(path)]

\* path.join(dir, name) for a name without separators: the result is
\* normalised, so "." is dir itself and ".." its parent (and stays a name
\* of the path where dir has no parent left to step back to)
join(dir, name) ==
    IF name = <<".">> THEN dir
    ELSE IF name = <<"..">>
    THEN IF dir = <<>> \/ lastname(dir) = <<"..">> THEN Append(dir, name)
         ELSE dirname(dir)
    ELSE Append(dir, name)

existsSync(path) == path \in DOMAIN files \/ path \in dirs

RECURSIVE UniqueLoop(_, _, _, _, _)
UniqueLoop(dir, base, ext, candidate, counter) ==
    IF existsSync(join(dir, candidate))
    THEN UniqueLoop(dir, base, ext,
                    base \o <<CounterText(counter)>> \o ext, counter + 1)
    ELSE candidate

\* only the first candidate is tested
ensureUniqueNameOnce(dir, desiredName) ==
    LET ext  == extname(desiredName)
        base == basename(desiredName, ext)
    IN  IF existsSync(join(dir, desiredName))
        THEN base \o <<CounterText(1)>> \o ext
        ELSE desiredName

ensureUniqueName(dir, desiredName) ==
    LET ext  == extname(desiredName)
        base == basename(desiredName, ext)
    IN  UniqueLoop(dir, base, ext, desiredName, 1)

BadChars == {"/", "\\", ":"}

\* sanitizeFileName: forbidden characters become "_", blanks at both ends
\* are trimmed, and an empty result is replaced by the fallback
RECURSIVE TrimLeft(_)
TrimLeft(s) == IF s # <<>> /\ Head(s) = " " THEN TrimLeft(Tail(s)) ELSE s

RECURSIVE TrimRight(_)
TrimRight(s) ==
    IF s # <<>> /\ s[Len(s)] = " " THEN TrimRight(SubSeq(s, 1, Len(s) - 1)) ELSE s

sanitizeFileName(name, fallback) ==
    LET replaced == [i \in 1..Len(name) |->
                        IF name[i] \in BadChars THEN "_" ELSE name[i]]
        cleaned  == TrimRight(TrimLeft(replaced))
    IN  IF Len(cleaned) = 0 THEN fallback ELSE cleaned


\* ------------------------------------------------------------------------
\* Cookies.  A jar is a function from the cookie names it holds to values;
\* a Set-Cookie header list is a sequence of <<name, value>> entries (the
\* text before the first ";", split at its first "=").
\* ------------------------------------------------------------------------
\* String.prototype.trim on the cookie texts of the model: the padded
\* texts below lose their blanks, every other text has none at its ends
trim(text) ==
    CASE text = " "    -> ""
      [] text = " 2 "  -> "2"
      [] text = " SID" -> "SID"
      [] OTHER         -> text

\* a merge in which the first value of a name wins
RECURSIVE updateCookiesFirstWins(_, _)
updateCookiesFirstWins(j, setCookieHeaders) ==
    IF setCookieHeaders = <<>> THEN j
    ELSE LET cookie == Head(setCookieHeaders)
             next   == IF cookie[1] # "" /\ cookie[2] # ""
                       THEN j @@ (trim(cookie[1]) :> trim(cookie[2]))
                       ELSE j
         IN  updateCookiesFirstWins(next, Tail(setCookieHeaders))

\* updateCookiesFromHeaders: an entry whose name and value are not empty
\* sets jar[name.trim()] = value.trim()
RECURSIVE updateCookiesFromHeaders(_, _)
updateCookiesFromHeaders(j, setCookieHeaders) ==
    IF setCookieHeaders = <<>> THEN j
    ELSE LET cookie == Head(setCookieHeaders)
             next   == IF cookie[1] # "" /\ cookie[2] # ""
                       THEN (trim(cookie[1]) :> trim(cookie[2])) @@ j
                       ELSE j
         IN  updateCookiesFromHeaders(next, Tail(setCookieHeaders))

\* the Cookie header: the jar's name=value pairs (no header when empty)
cookieHeader(j) == {<<k, j[k]>> : k \in DOMAIN j}

\* saveCookies writes one name=value line per entry of the jar
saveCookies(j) == {<<k, j[k]>> : k \in DOMAIN j}

\* loadCookies reads the lines back: comment lines and lines without a
\* name are skipped
loadCookies(lines) ==
    LET kept == {l \in lines : l[1] # "" /\ l[1] # "#"}
    IN  [k \in {l[1] : l \in kept} |-> (CHOOSE l \in kept : l[1] = k)[2]]

\* ------------------------------------------------------------------------
\* Metadata cache
\* ------------------------------------------------------------------------
loadMetadata(fileId) == {m \in cache : m.id = fileId}

\* a cache that keeps the records it has
saveMetadataKeep(c, metadata) == c \cup {metadata}

saveMetadata(c, metadata) == {m \in c : m.id # metadata.id} \cup {metadata}

\* calculateFileHash: SHA-256 of the content, taken to be collision free
calculateFileHash(content) == <<"sha256", content>>

\* isFileValid / verifyFileHash: the file exists, can be read and hashes to
\* the expected value (a directory cannot be read: false)
isFileValid(filePath, expectedHash) ==
    /\ existsSync(filePath)
    /\ filePath \in DOMAIN files
    /\ calculateFileHash(files[filePath]) = expectedHash

\* ------------------------------------------------------------------------
\* Response bodies and their classification
\* ------------------------------------------------------------------------
NoToken == ""

Body(has, link, form) == [has |-> has, link |-> link, form |-> form]

\* an extraction that tries the hidden form field first
extractConfirmTokenFormFirst(body) ==
    IF body.form # NoToken THEN body.form
    ELSE IF body.link # NoToken THEN body.link
    ELSE NoToken

\* extractConfirmToken: the link pattern first, then the hidden form field
extractConfirmToken(body) ==
    IF body.link # NoToken THEN body.link
    ELSE IF body.form # NoToken THEN body.form
    ELSE NoToken

\* the rate-limit test of downloadFile on a result
IsRateLimited(statusCode, body) == statusCode = 429 \/ "rate" \in body.has

IsDenied(statusCode, body) == "perm" \in body.has \/ statusCode = 403

IsMissing(statusCode, body) == "notfound" \in body.has \/ statusCode = 404

\* a classification that looks for a denial before a rate limit
ClassifyDeniedFirst(statusCode, body) ==
    IF IsDenied(statusCode, body) THEN "DENIED"
    ELSE IF IsRateLimited(statusCode, body) THEN "RATE_LIMITED"
    ELSE IF IsMissing(statusCode, body) THEN "MISSING"
    ELSE IF extractConfirmToken(body) # NoToken THEN "NEED_TOKEN"
    ELSE "NO_TOKEN"

\* the class of a result that is not a completed download
Classify(statusCode, body) ==
    IF IsRateLimited(statusCode, body) THEN "RATE_LIMITED"
    ELSE IF IsDenied(statusCode, body) THEN "DENIED"
    ELSE IF IsMissing(statusCode, body) THEN "MISSING"
    ELSE IF extractConfirmToken(body) # NoToken THEN "NEED_TOKEN"
    ELSE "NO_TOKEN"

\* ------------------------------------------------------------------------
\* Backoff delays of downloadFile, in ms
\* ------------------------------------------------------------------------
RECURSIVE Pow2(_)
Pow2(n) == IF n = 0 THEN 1 ELSE 2 * Pow2(n - 1)

\* a rate-limit delay without its cap
RateLimitDelayUncapped(attempt) == 5000 * Pow2(attempt)

\* Math.min(5000 * Math.pow(2, attempt), 120000)
RateLimitDelay(attempt) == Min(5000 * Pow2(attempt), 120000)

\* Math.min(base * Math.pow(1.5, attempt), cap), rounded down to a whole
\* ms; num/den is base * 1.5^k, and once it reaches the cap it stays there
RECURSIVE Grow15(_, _, _, _)
Grow15(num, den, k, cap) ==
    IF num >= cap * den THEN cap
    ELSE IF k = 0 THEN num \div den
    ELSE Grow15(num * 3, den * 2, k - 1, cap)

NoTokenDelay(attempt) == Grow15(3000, 1, attempt, 30000)

ErrorDelay(attempt) == Grow15(2000, 1, attempt, 20000)

\* Math.min(2000 + attempt * 1000, 15000)
TokenDelay(attempt) == Min(2000 + attempt * 1000, 15000)


\* ------------------------------------------------------------------------
\* downloadFile: the attempt loop
\* ------------------------------------------------------------------------
NoPath == <<>>

DlIdle ==
    [pc |-> "idle", id |-> "", resourceKey |-> "", output |-> NoPath,
     verify |-> FALSE,
     noCookies |-> FALSE, destDir |-> NoPath, preferredName |-> NoName,
     attempt |-> 0, confirmToken |-> NoToken, hops |-> 0, delay |-> 0,
     class |-> "NONE", err |-> "", result |-> NoPath, hash |-> <<>>,
     reqs |-> 0, slept |-> 0, onlyRate |-> TRUE, short |-> FALSE,
     desired |-> NoName, finalName |-> NoName, dirBefore |-> {},
     reqConfirm |-> NoToken, reqCookie |-> {}, bodyToken |-> NoToken,
     cause |-> ""]

\* the loop test off by one: a sixteenth attempt
LoopGuardInclusive(attempt) == attempt <= maxAttempts

\* for (let attempt = 0; attempt < maxAttempts; attempt += 1)
LoopGuard(attempt) == attempt < maxAttempts

\* the head of the loop: issue the request of this attempt, or leave the
\* loop and throw "Exceeded maximum attempts"
LoopHead(d, j) ==
    IF LoopGuard(d.attempt)
    THEN [d EXCEPT !.pc = "wait", !.reqs = @ + 1, !.hops = 0, !.delay = 0,
                   !.class = "NONE", !.bodyToken = NoToken, !.cause = "",
                   !.reqConfirm = d.confirmToken,
                   !.reqCookie = cookieHeader(j)]
    ELSE [d EXCEPT !.pc = "failed", !.err = "Exceeded", !.delay = 0]

\* a next iteration that starts without the token
NextIterationFresh(d, j) ==
    LoopHead([d EXCEPT !.attempt = @ + 1, !.confirmToken = NoToken], j)

\* continue: the next iteration of the loop
NextIteration(d, j) == LoopHead([d EXCEPT !.attempt = @ + 1], j)

\* await sleep(ms)
Sleep(d, ms) == [d EXCEPT !.pc = "sleep", !.delay = ms, !.slept = @ + 1]

\* a catch block that retries on the last attempt as well
CatchRetryLast(d, kind, msgRate) ==
    IF msgRate THEN Sleep(d, RateLimitDelay(d.attempt))
    ELSE Sleep(d, ErrorDelay(d.attempt))

\* the catch block of the loop, for an error of the given kind whose
\* message does (msgRate) or does not contain a rate-limit phrase
Catch(d, kind, msgRate) ==
    IF msgRate THEN Sleep(d, RateLimitDelay(d.attempt))
    ELSE IF d.attempt = maxAttempts - 1
    THEN [d EXCEPT !.pc = "failed", !.err = kind]
    ELSE Sleep(d, ErrorDelay(d.attempt))

\* throw new PermissionError / FileNotFoundError / Error inside the try
\* block: the loop's own catch block receives it
ThrowInTry(d, kind) == Catch(d, kind, FALSE)

\* the try block after a result that is not a completed download;
\* bodyToken is the token the patterns find in the body
OnResult(d0, j, statusCode, body) ==
    LET class == Classify(statusCode, body)
        d     == [d0 EXCEPT !.class = class, !.reqConfirm = NoToken,
                            !.reqCookie = {},
                            !.bodyToken = extractConfirmToken(body),
                            !.onlyRate = @ /\ class = "RATE_LIMITED"]
    IN  CASE class = "RATE_LIMITED" -> Sleep(d, RateLimitDelay(d.attempt))
          [] class = "DENIED"       -> ThrowInTry(d, "PermissionError")
          [] class = "MISSING"      -> ThrowInTry(d, "FileNotFoundError")
          [] class = "NO_TOKEN"     ->
                IF d.attempt < maxAttempts - 1
                THEN Sleep(d, NoTokenDelay(d.attempt))
                ELSE ThrowInTry(d, "NoTokenError")
          [] class = "NEED_TOKEN"   ->
                LET t == [d EXCEPT !.confirmToken = extractConfirmToken(body)]
                IN  IF t.attempt < maxAttempts - 1
                    THEN Sleep(t, TokenDelay(t.attempt))
                    ELSE NextIteration(t, j)

\* a rejected performDownloadRequest; cause is the error it rejected with
OnReject(d, kind, msgRate) ==
    Catch([d EXCEPT !.class = IF msgRate THEN "RATE_ERROR" ELSE "ERROR",
                    !.cause = kind, !.onlyRate = FALSE,
                    !.reqConfirm = NoToken, !.reqCookie = {}], kind, msgRate)

\* the Cookie header of the request that the step from d to e issued, if
\* it issued one, beside the cookies the session has been sent (s)
RequestSent(d, e, s) ==
    IF e.pc = "wait" /\ (d.pc # "wait" \/ e.hops # d.hops)
    THEN [header |-> e.reqCookie, expect |-> cookieHeader(s)]
    ELSE lastReq


\* every directory on the way to dir (mkdirSync with recursive: true)
Ancestors(dir) == {SubSeq(dir, 1, n) : n \in 0..Len(dir)}

\* the path the cache pre-check looks at
PrecheckPath(fileId, destDir, preferredName, metadata) ==
    IF preferredName # NoName THEN join(destDir, preferredName)
    ELSE join(destDir, IF metadata.name # NoName THEN metadata.name
                       ELSE <<fileId>>)

\* a step of an activation that touches neither files nor stores; the
\* response it handled carried setCookie
Plain(e, j, setCookie) ==
    /\ dl' = e
    /\ jar' = j
    /\ seen' = updateCookiesFromHeaders(seen, setCookie)
    /\ lastReq' = RequestSent(dl, e, seen')
    /\ UNCHANGED <<files, dirs, cache, cookieStore, calls, partials, prev,
                   filesAtStart>>

\* downloadFile(urlOrId, output, options) with options.id and
\* options.resourceKey set: from the call to its first request, or to the
\* short-circuit return; newSession tells whether the call starts a session
\* of its own
Call(fileId, resourceKey, output, verify, noCookies, newSession) ==
    /\ dl.pc \in {"idle", "returned", "failed"}
    /\ LET outputPath    == IF output # NoPath THEN output ELSE <<<<fileId>>>>
           isDirectory   == outputPath \in dirs
           destDir       == IF isDirectory THEN outputPath
                            ELSE dirname(outputPath)
           preferredName == IF isDirectory THEN NoName
                            ELSE lastname(outputPath)
           j             == IF noCookies THEN <<>> ELSE loadCookies(cookieStore)
           found         == IF verify
                            THEN {m \in loadMetadata(fileId) :
                                    /\ m.hash # <<>>
                                    /\ isFileValid(PrecheckPath(fileId, destDir,
                                           preferredName, m), m.hash)}
                            ELSE {}
           d0            == [DlIdle EXCEPT !.id = fileId,
                                !.resourceKey = resourceKey,
                                !.output = output,
                                !.verify = verify, !.noCookies = noCookies,
                                !.destDir = destDir,
                                !.preferredName = preferredName]
           e             == IF found # {}
                            THEN LET m == CHOOSE m \in found : TRUE
                                 IN  [d0 EXCEPT !.pc = "returned",
                                        !.short = TRUE, !.hash = m.hash,
                                        !.result = PrecheckPath(fileId, destDir,
                                                       preferredName, m)]
                            ELSE LoopHead(d0, j)
       IN  /\ dl' = e
           /\ jar' = j
           /\ seen' = IF newSession THEN j ELSE seen
           /\ lastReq' = RequestSent(dl, e, seen')
           /\ dirs' = dirs \cup Ancestors(destDir)
           /\ calls' = calls + 1
           /\ prev' = [status |-> dl.pc, id |-> dl.id, output |-> dl.output,
                       verify |-> dl.verify, result |-> dl.result,
                       hash |-> dl.hash, cache |-> cache,
                       cookieStore |-> cookieStore]
           /\ filesAtStart' = files
           /\ UNCHANGED <<files, cache, cookieStore, partials>>

\* the timer of a backoff sleep fires: the loop goes on
Wake ==
    /\ dl.pc = "sleep"
    /\ Plain(NextIteration(dl, jar), jar, <<>>)

\* a 429 response: { success: false, body: "Rate limited (429)" }
Respond429(setCookie) ==
    /\ dl.pc = "wait"
    /\ LET j == updateCookiesFromHeaders(jar, setCookie)
       IN  Plain(OnResult(dl, j, 429, Body({"rate"}, NoToken, NoToken)), j,
                 setCookie)

\* a 3xx response with a location: the request is repeated at the new URL
\* inside the same attempt, however many redirects came before; hops tells
\* which URL the request of the attempt is at (0: the download URL)
RespondRedirect(setCookie, location) ==
    /\ dl.pc = "wait"
    /\ location \in 0..MaxHops
    /\ location # dl.hops
    /\ LET j == updateCookiesFromHeaders(jar, setCookie)
       IN  Plain([dl EXCEPT !.hops = location, !.reqCookie = cookieHeader(j)],
                 j, setCookie)

\* any other response that is not a download: the body is read and decoded
RespondBody(setCookie, statusCode, body) ==
    /\ dl.pc = "wait"
    /\ LET j == updateCookiesFromHeaders(jar, setCookie)
       IN  Plain(OnResult(dl, j, statusCode, body), j, setCookie)

\* the request fails (connection reset, DNS, a body that cannot be decoded)
RequestError(setCookie, msgRate) ==
    /\ dl.pc = "wait"
    /\ LET j == updateCookiesFromHeaders(jar, setCookie)
       IN  Plain(OnReject(dl, "TransportError", msgRate), j, setCookie)

\* the 60 s socket timeout: req.destroy(); reject("Request timeout")
RequestTimeout(setCookie) ==
    /\ dl.pc = "wait"
    /\ LET j == updateCookiesFromHeaders(jar, setCookie)
       IN  Plain(OnReject(dl, "Timeout", FALSE), j, setCookie)

\* status 200 with a content-disposition header: the body is streamed to a
\* file with a fresh name; streamOk tells whether the stream finishes, and
\* hashOk whether the file can then be read for its hash and its size
RespondDownload(setCookie, inferredName, content, streamOk, hashOk) ==
    /\ dl.pc = "wait"
    /\ ~hashOk => (streamOk /\ dl.verify)
    /\ LET j         == updateCookiesFromHeaders(jar, setCookie)
           fallback  == sanitizeFileName(
                            IF dl.preferredName # NoName THEN dl.preferredName
                            ELSE <<"download">>, <<"download">>)
           baseName  == sanitizeFileName(
                            IF inferredName # NoName THEN inferredName
                            ELSE fallback, fallback)
           finalName == ensureUniqueName(dl.destDir, baseName)
           filePath  == join(dl.destDir, finalName)
           d         == [dl EXCEPT !.desired = baseName,
                            !.finalName = finalName,
                            !.dirBefore = {q \in DOMAIN files \cup dirs :
                                             /\ q # NoPath
                                             /\ dirname(q) = dl.destDir}]
       IN  IF streamOk /\ ~hashOk
           THEN /\ partials < MaxPartial
                /\ partials' = partials + 1
                /\ files' = (filePath :> content) @@ files
                /\ cookieStore' = IF dl.noCookies THEN cookieStore
                                  ELSE saveCookies(j)
                /\ dl' = OnReject(d, "HashError", FALSE)
                /\ jar' = j
                /\ seen' = updateCookiesFromHeaders(seen, setCookie)
                /\ UNCHANGED <<dirs, cache, calls, lastReq, prev,
                               filesAtStart>>
           ELSE IF streamOk
           THEN /\ files' = (filePath :> content) @@ files
                /\ cookieStore' = IF dl.noCookies THEN cookieStore
                                  ELSE saveCookies(j)
                /\ cache' = IF dl.verify
                            THEN saveMetadata(cache,
                                    [id |-> dl.id, name |-> lastname(filePath),
                                     size |-> Len(content),
                                     hash |-> calculateFileHash(content)])
                            ELSE cache
                /\ dl' = [d EXCEPT !.pc = "returned", !.class = "COMPLETE",
                             !.onlyRate = FALSE, !.result = filePath,
                             !.reqConfirm = NoToken, !.reqCookie = {},
                             !.hash = calculateFileHash(content)]
                /\ jar' = j
                /\ seen' = updateCookiesFromHeaders(seen, setCookie)
                /\ UNCHANGED <<dirs, calls, partials, lastReq, prev,
                               filesAtStart>>
           ELSE /\ partials < MaxPartial
                /\ partials' = partials + 1
                /\ files' = (filePath :> "partial") @@ files
                /\ dl' = OnReject(d, "StreamError", FALSE)
                /\ jar' = j
                /\ seen' = updateCookiesFromHeaders(seen, setCookie)
                /\ UNCHANGED <<dirs, cache, cookieStore, calls, lastReq, prev,
                               filesAtStart>>

\* the response handler of performDownloadRequest: what a response with
\* this status is taken for; location and disposition tell whether it has
\* a location and a content-disposition header
ResponseKind(statusCode, location, disposition) ==
    IF statusCode = 429 THEN "429"
    ELSE IF statusCode >= 300 /\ statusCode < 400 /\ location THEN "redirect"
    ELSE IF disposition /\ statusCode = 200 THEN "download"
    ELSE "body"

\* after a call returned the user edits the file it returned
Modify(path) ==
    /\ dl.pc = "returned"
    /\ path = dl.result
    /\ path \in DOMAIN files
    /\ files[path] # "edited"
    /\ files' = [files EXCEPT ![path] = "edited"]
    /\ UNCHANGED <<dirs, cache, cookieStore, dl, jar, calls, partials, seen,
                   lastReq, prev, filesAtStart>>


\* ------------------------------------------------------------------------
\* The resolver (parser.ts).  A reference is the string given as urlOrId,
\* with what the code asks of it: whether new URL() accepts it and, if so,
\* its host name, the shape of its path with the id characters that follow
\* the pattern in the path, its id and resourcekey query parameters; and
\* runs, the maximal runs of id characters ([a-zA-Z0-9_-]) of the whole
\* string that matter to the fuzzy match, in the order of the string.
\* ------------------------------------------------------------------------
NoParse == [id |-> "", type |-> "none", resourceKey |-> ""]

Parsed(id, type, resourceKey) ==
    [id |-> id, type |-> type, resourceKey |-> resourceKey]

DocShapes == {"document", "spreadsheets", "presentation", "drawings"}

\* typeMap[docMatch[1]]
typeMap(shape) ==
    CASE shape = "document"     -> "document"
      [] shape = "spreadsheets" -> "spreadsheet"
      [] shape = "presentation" -> "presentation"
      [] shape = "drawings"     -> "drawing"
      [] OTHER                  -> "unknown"

\* a fuzzy match that takes the first run whatever its length
fuzzyMatchAny(runs) == IF runs = <<>> THEN "" ELSE Head(runs)

\* url.match(/([a-zA-Z0-9_-]{25,})/): the first run of 25 characters or
\* more, "" when there is none
RECURSIVE fuzzyMatch(_)
fuzzyMatch(runs) ==
    IF runs = <<>> THEN ""
    ELSE IF Len(Head(runs)) >= 25 THEN Head(runs)
    ELSE fuzzyMatch(Tail(runs))

\* parseGoogleDriveUrl
parseGoogleDriveUrl(url) ==
    LET lastResort == IF fuzzyMatch(url.runs) # ""
                      THEN Parsed(fuzzyMatch(url.runs), "file", "")
                      ELSE NoParse
    IN  IF ~url.isUrl THEN lastResort
        ELSE IF url.shape = "file" /\ url.id # ""
             THEN Parsed(url.id, "file", url.resourcekey)
        ELSE IF url.shape = "folders" /\ url.id # ""
             THEN Parsed(url.id, "folder", url.resourcekey)
        ELSE IF /\ url.host = "docs.google.com"
                /\ url.shape \in DocShapes
                /\ url.id # ""
             THEN Parsed(url.id, typeMap(url.shape), url.resourcekey)
        ELSE IF url.idParam # ""
             THEN Parsed(url.idParam, "file", url.resourcekey)
        ELSE IF fuzzyMatch(url.runs) # "" /\ url.host = "drive.google.com"
             THEN Parsed(fuzzyMatch(url.runs), "file", url.resourcekey)
        ELSE lastResort

\* the resolution at the head of downloadFile: the id it goes on with, or
\* the error it throws
ResolveFile(urlOrId, optionsId) ==
    LET parsed == parseGoogleDriveUrl(urlOrId)
    IN  IF optionsId # "" THEN [fileId |-> optionsId, err |-> ""]
        ELSE IF parsed = NoParse
             THEN [fileId |-> "", err |-> "Unable to extract Google Drive ID"]
        ELSE [fileId |-> parsed.id, err |-> ""]

\* the resolution at the head of downloadFolder
ResolveFolder(urlOrId, optionsId) ==
    LET parsed == parseGoogleDriveUrl(urlOrId)
    IN  IF optionsId # "" THEN [folderId |-> optionsId, err |-> ""]
        ELSE IF parsed = NoParse \/ parsed.type # "folder"
             THEN [folderId |-> "",
                   err |-> "Unable to extract Google Drive folder ID"]
        ELSE [folderId |-> parsed.id, err |-> ""]

\* ------------------------------------------------------------------------
\* Folder listing pages (folder.ts).  A page is the sequence of the matches
\* of entryRegex in page order; a match has the href of its link, already
\* split into the shape of its URL and the id the URL carries, and its title
\* as a file name.
\* ------------------------------------------------------------------------
NoId == ""

\* a match whose link has a resourcekey parameter ("": none)
MatchKey(shape, id, title, resourceKey) ==
    [href |-> [shape |-> shape, id |-> id, resourceKey |-> resourceKey],
     title |-> title]

Match(shape, id, title) == MatchKey(shape, id, title, "")

\* a classification that drops the resourcekey of the link
classifyDriveHrefNoKey(href) ==
    CASE href.shape = "folders" ->
             [id |-> href.id, type |-> "folder", resourceKey |-> ""]
      [] href.shape = "file" ->
             [id |-> href.id, type |-> "file", resourceKey |-> ""]
      [] href.shape = "idparam" ->
             [id |-> href.id, type |-> "file", resourceKey |-> ""]
      [] OTHER -> [id |-> NoId, type |-> "file", resourceKey |-> ""]

\* classifyDriveHref: the id, the type and the access key a link stands for
classifyDriveHref(href) ==
    CASE href.shape = "folders" ->
             [id |-> href.id, type |-> "folder",
              resourceKey |-> href.resourceKey]
      [] href.shape = "file" ->
             [id |-> href.id, type |-> "file",
              resourceKey |-> href.resourceKey]
      [] href.shape = "idparam" ->
             [id |-> href.id, type |-> "file",
              resourceKey |-> href.resourceKey]
      [] OTHER -> [id |-> NoId, type |-> "file", resourceKey |-> ""]

\* the while loop of fetchDriveFolderEntries from match number pos on
RECURSIVE EntryLoop(_, _, _, _)
EntryLoop(html, pos, entries, fileCount) ==
    IF pos > Len(html) \/ ~(fileCount < MAX_FILES_PER_FOLDER)
    THEN [entries |-> entries, fileCount |-> fileCount]
    ELSE LET c == classifyDriveHref(html[pos].href)
             title == html[pos].title
         IN  IF c.id = NoId
             THEN EntryLoop(html, pos + 1, entries, fileCount)
             ELSE EntryLoop(html, pos + 1,
                      Append(entries,
                             [id |-> c.id,
                              name |-> IF title # NoName THEN title
                                       ELSE <<c.id>>,
                              type |-> c.type,
                              resourceKey |-> c.resourceKey]),
                      fileCount + 1)

\* fetchDriveFolderEntries after the page arrived: the entries it returns
\* and the number of warnings it prints
ParseEntries(html, quiet) ==
    LET r == EntryLoop(html, 1, <<>>, 0)
    IN  [entries  |-> r.entries,
         warnings |-> IF r.fileCount >= MAX_FILES_PER_FOLDER /\ ~quiet
                      THEN 1 ELSE 0]

\* ------------------------------------------------------------------------
\* fetchText (utils.ts): its activations.  A retry or a redirect runs in a
\* nested call whose outcome settles the promise of the first call, so an
\* activation is one chain of requests; it is attached while the caller
\* still awaits that promise.
\* ------------------------------------------------------------------------
maxRetries == 5

\* a retry test that allows one retry more
CanRetryInclusive(retryCount) == retryCount <= maxRetries

\* retryCount < maxRetries
CanRetry(retryCount) == retryCount < maxRetries

\* new Error(`HTTP ${res.statusCode} when fetching ${url}`)
HttpError(statusCode) == "HTTP " \o ToString(statusCode)

\* Math.min(2000 * Math.pow(2, retryCount), 60000)
RateBackoff(retryCount) == Min(2000 * Pow2(retryCount), 60000)

\* Math.min(2000 * Math.pow(2, retryCount), 30000)
ErrorBackoff(retryCount) == Min(2000 * Pow2(retryCount), 30000)

VARIABLES
    listing,      \* one parse of a listing page: its input and its outcome
    calc,         \* one application of a pure function: input and outcome
    crawl,        \* downloadFolder: its position, its stack of folders
    fetches,      \* the live activations of fetchText, oldest first
    attempted,    \* the ids of the entries the crawl began, in order
    failures,     \* the entries that failed: id and error, in order
    listed,       \* the folders whose listing was fetched
    completed     \* the files the downloads of the crawl returned

cvars ==
    <<listing, calc, crawl, fetches, attempted, failures, listed, completed>>

\* the number of HTTP requests issued and not yet settled
InFlight ==
    (IF dl.pc = "wait" THEN 1 ELSE 0)
    + Cardinality({k \in DOMAIN fetches : fetches[k].pc = "wait"})

Front(s) == SubSeq(s, 1, Len(s) - 1)

Remove(s, k) == [i \in 1..(Len(s) - 1) |-> IF i < k THEN s[i] ELSE s[i + 1]]

NoAnswer ==
    [ok |-> TRUE, err |-> "", html |-> <<>>, status |-> 0, retries |-> 0,
     rateRetries |-> 0]

\* a new activation: the first request is out
NewFetch(folderId, j) ==
    [pc |-> "wait", folder |-> folderId, jar |-> j, retryCount |-> 0,
     hops |-> 0, delay |-> 0, attached |-> TRUE, status |-> 0,
     cause |-> "none", rateRetries |-> 0]

\* resolve(text) or reject(err) in activation k after a response with this
\* status (0: none): the caller sees it if it still awaits the promise
Settled(k, statusCode, answer) ==
    IF fetches[k].attached
    THEN [crawl EXCEPT !.pc = "settled",
             !.answer = [answer EXCEPT !.status = statusCode,
                            !.retries = fetches[k].retryCount,
                            !.rateRetries = fetches[k].rateRetries]]
    ELSE crawl

Rejected(err) == [NoAnswer EXCEPT !.ok = FALSE, !.err = err]

\* what a step of fetchText leaves alone
FetchFrame(setCookie) ==
    /\ seen' = updateCookiesFromHeaders(seen, setCookie)
    /\ UNCHANGED <<files, dirs, cache, cookieStore, dl, jar, calls, partials,
                   prev, filesAtStart, listing, calc, attempted, failures,
                   listed, completed>>

\* a 3xx response with a location: fetchText(nextUrl, {...options,
\* retryCount}), before the cookies of the response are looked at
FetchRedirect(k, setCookie) ==
    /\ k \in DOMAIN fetches
    /\ fetches[k].pc = "wait"
    /\ fetches[k].hops < MaxHops
    /\ fetches' = [fetches EXCEPT ![k].hops = @ + 1, ![k].status = 302]
    /\ FetchFrame(setCookie)
    /\ lastReq' = [header |-> cookieHeader(fetches[k].jar),
                   expect |-> cookieHeader(seen')]
    /\ UNCHANGED crawl

\* a 429 response: a backoff and a retry, or RateLimitError
Fetch429(k, setCookie) ==
    /\ k \in DOMAIN fetches
    /\ fetches[k].pc = "wait"
    /\ IF CanRetry(fetches[k].retryCount)
       THEN /\ fetches' = [fetches EXCEPT ![k].pc = "backoff",
                              ![k].status = 429, ![k].cause = "429",
                              ![k].delay = RateBackoff(fetches[k].retryCount)]
            /\ UNCHANGED crawl
       ELSE /\ fetches' = Remove(fetches, k)
            /\ crawl' = Settled(k, 429, Rejected("RateLimitError"))
    /\ FetchFrame(setCookie)
    /\ UNCHANGED lastReq

\* a response with a status of 400 or more
FetchHttpError(k, setCookie, statusCode) ==
    /\ k \in DOMAIN fetches
    /\ fetches[k].pc = "wait"
    /\ fetches' = Remove(fetches, k)
    /\ crawl' = Settled(k, statusCode, Rejected(HttpError(statusCode)))
    /\ FetchFrame(setCookie)
    /\ UNCHANGED lastReq

\* any other response: its cookies go to the jar and its body is read
FetchOk(k, setCookie, html, decodes) ==
    /\ k \in DOMAIN fetches
    /\ fetches[k].pc = "wait"
    /\ fetches' = Remove(fetches, k)
    /\ crawl' = Settled(k, 200, IF decodes
                                THEN [NoAnswer EXCEPT !.html = html]
                                ELSE Rejected("DecodeError"))
    /\ FetchFrame(setCookie)
    /\ UNCHANGED lastReq

\* req.on("error"): a backoff and a retry, or the error
FetchNetError(k) ==
    /\ k \in DOMAIN fetches
    /\ fetches[k].pc = "wait"
    /\ IF CanRetry(fetches[k].retryCount)
       THEN /\ fetches' = [fetches EXCEPT ![k].pc = "backoff",
                              ![k].status = 0, ![k].cause = "error",
                              ![k].delay = ErrorBackoff(fetches[k].retryCount)]
            /\ UNCHANGED crawl
       ELSE /\ fetches' = Remove(fetches, k)
            /\ crawl' = Settled(k, 0, Rejected("TransportError"))
    /\ FetchFrame(<<>>)
    /\ UNCHANGED lastReq

\* the 60 s timeout: req.destroy() and reject("Request timeout").  Destroying
\* a request that has no response yet (early) makes it emit "error", and the
\* error handler then retries although the promise is settled.
FetchTimeout(k, early) ==
    /\ k \in DOMAIN fetches
    /\ fetches[k].pc = "wait"
    /\ fetches' = IF early /\ CanRetry(fetches[k].retryCount)
                  THEN [fetches EXCEPT ![k].pc = "backoff",
                           ![k].attached = FALSE,
                           ![k].status = 0, ![k].cause = "error",
                           ![k].delay = ErrorBackoff(fetches[k].retryCount)]
                  ELSE Remove(fetches, k)
    /\ crawl' = Settled(k, IF early THEN 0 ELSE 200, Rejected("Timeout"))
    /\ FetchFrame(<<>>)
    /\ UNCHANGED lastReq

\* the timer of a backoff fires: fetchText(url, {...options, retryCount:
\* retryCount + 1}); rateRetries counts the retries that followed a 429
FetchWake(k) ==
    /\ k \in DOMAIN fetches
    /\ fetches[k].pc = "backoff"
    /\ fetches' = [fetches EXCEPT ![k].pc = "wait", ![k].retryCount = @ + 1,
                      ![k].rateRetries =
                         IF fetches[k].cause = "429" THEN @ + 1 ELSE @]
    /\ FetchFrame(<<>>)
    /\ lastReq' = [header |-> cookieHeader(fetches[k].jar),
                   expect |-> cookieHeader(seen')]
    /\ UNCHANGED crawl

\* ------------------------------------------------------------------------
\* downloadFolder and downloadFolderRecursive (folder.ts).  The stack holds
\* one frame per active downloadFolderRecursive call: the folder, its
\* destination, the entries of its listing and the loop index i (from 0).
\* A function that awaits resumes in a step of its own.
\* ------------------------------------------------------------------------
CrawlIdle ==
    [pc |-> "idle", stack |-> <<>>, remainingOk |-> FALSE, quiet |-> FALSE,
     err |-> "", delay |-> 0, answer |-> NoAnswer]

Frame(folderId, destDir) ==
    [folder |-> folderId, destDir |-> destDir, entries |-> <<>>, i |-> 0]

\* a delay that does not grow with the position
SuccessDelayFlat(i) == 2000

\* i < 5 ? 2000 : i < 20 ? 3000 : 5000
SuccessDelay(i) == IF i < 5 THEN 2000 ELSE IF i < 20 THEN 3000 ELSE 5000

\* i < 5 ? 3000 : i < 20 ? 5000 : 8000
FailureDelay(i) == IF i < 5 THEN 3000 ELSE IF i < 20 THEN 5000 ELSE 8000

\* what the crawl does next
Then(act, stack, err, delay) ==
    [act |-> act, stack |-> stack, err |-> err, delay |-> delay]

\* the entry at the top of the stack succeeded: the delay before the next
\* entry, or the end of the loop and the return to the calling frame, whose
\* entry (the subfolder) thereby succeeded
RECURSIVE AfterSuccess(_)
AfterSuccess(stack) ==
    LET top == stack[Len(stack)]
    IN  IF top.i < Len(top.entries) - 1
        THEN Then("sleep", stack, "", SuccessDelay(top.i))
        ELSE IF Len(stack) = 1 THEN Then("done", <<>>, "", 0)
             ELSE AfterSuccess(Front(stack))

\* a downloadFolderRecursive call returns
Return(stack) ==
    IF Len(stack) = 1 THEN Then("done", <<>>, "", 0)
    ELSE AfterSuccess(Front(stack))

\* a catch block that never rethrows
CatchSwallow(stack, err, remainingOk) ==
    LET top == stack[Len(stack)]
    IN  IF top.i < Len(top.entries) - 1
        THEN Then("sleep", stack, err, FailureDelay(top.i))
        ELSE Return(stack)

\* a catch block that leaves the loop instead of going on
CatchLeave(stack, err, remainingOk) ==
    IF ~remainingOk
    THEN Then("failed", <<>>, err, 0)
    ELSE Return(stack)

\* the catch block: the entry at the top of the stack failed with err
RECURSIVE CatchEntry(_, _, _)
CatchEntry(stack, err, remainingOk) ==
    LET top == stack[Len(stack)]
    IN  IF ~remainingOk
        THEN IF Len(stack) = 1 THEN Then("failed", <<>>, err, 0)
             ELSE CatchEntry(Front(stack), err, remainingOk)
        ELSE IF top.i < Len(top.entries) - 1
             THEN Then("sleep", stack, err, FailureDelay(top.i))
             ELSE Return(stack)

\* the crawl takes up what comes next, unless that is an entry
Proceed(then) ==
    crawl' = [crawl EXCEPT
                 !.pc = CASE then.act = "sleep"  -> "delay"
                          [] then.act = "done"   -> "done"
                          [] then.act = "failed" -> "failed",
                 !.stack = then.stack, !.err = then.err,
                 !.delay = then.delay, !.answer = NoAnswer]

\* the request of a listing: jar = loadCookies(), fetchText(url, { jar });
\* s holds the cookies the session has been sent
StartListing(folderId, s) ==
    LET j == loadCookies(cookieStore)
    IN  /\ fetches' = Append(fetches, NewFetch(folderId, j))
        /\ lastReq' = [header |-> cookieHeader(j), expect |-> cookieHeader(s)]

\* the body of the loop for the entry at index i of the top frame, up to its
\* first await
BeginEntry(stack) ==
    LET top   == stack[Len(stack)]
        entry == top.entries[top.i + 1]
        path  == join(top.destDir, sanitizeFileName(entry.name, <<entry.id>>))
    IN  /\ attempted' = Append(attempted, entry.id)
        /\ IF entry.type = "folder"
           THEN /\ Len(stack) < MaxDepth
                /\ dirs' = IF existsSync(path) THEN dirs
                           ELSE dirs \cup Ancestors(path)
                /\ StartListing(entry.id, seen)
                /\ crawl' = [crawl EXCEPT !.pc = "listing",
                                !.stack = Append(stack, Frame(entry.id, path)),
                                !.delay = 0, !.answer = NoAnswer]
                /\ UNCHANGED <<files, cache, cookieStore, dl, jar, calls,
                               partials, seen, prev, filesAtStart>>
           ELSE /\ Call(entry.id, entry.resourceKey, path, FALSE, FALSE,
                        FALSE)
                /\ crawl' = [crawl EXCEPT !.pc = "download", !.stack = stack,
                                !.delay = 0, !.answer = NoAnswer]
                /\ UNCHANGED fetches

\* downloadFolder(urlOrId, output, options) with options.id set, up to the
\* request of the top-level listing
StartCrawl(folderId, output, remainingOk, quiet) ==
    /\ crawl.pc = "idle"
    /\ ~(output \in DOMAIN files)
    /\ dirs' = dirs \cup Ancestors(output)
    /\ seen' = loadCookies(cookieStore)
    /\ StartListing(folderId, loadCookies(cookieStore))
    /\ crawl' = [CrawlIdle EXCEPT !.pc = "listing",
                    !.stack = <<Frame(folderId, output)>>,
                    !.remainingOk = remainingOk, !.quiet = quiet]
    /\ UNCHANGED <<files, cache, cookieStore, dl, jar, calls, partials, prev,
                   filesAtStart, listing, calc, attempted, failures, listed,
                   completed>>

\* fetchDriveFolderEntries resumes with the page, or throws
ListingReturned ==
    /\ crawl.pc = "settled"
    /\ LET n      == Len(crawl.stack)
           top    == crawl.stack[n]
           parsed == ParseEntries(crawl.answer.html, crawl.quiet)
           stack  == [crawl.stack EXCEPT ![n].entries = parsed.entries]
       IN  IF crawl.answer.ok
           THEN /\ listed' = listed \cup {top.folder}
                /\ UNCHANGED <<failures, listing, calc, completed>>
                /\ IF parsed.entries = <<>>
                   THEN /\ Proceed(Return(crawl.stack))
                        /\ UNCHANGED <<dvars, fetches, attempted>>
                   ELSE BeginEntry(stack)
           ELSE /\ UNCHANGED <<dvars, fetches, attempted, listed, listing, calc,
                               completed>>
                /\ IF n = 1
                   THEN /\ Proceed(Then("failed", <<>>, crawl.answer.err, 0))
                        /\ UNCHANGED failures
                   ELSE LET parent == Front(crawl.stack)
                            entry  == parent[n - 1].entries[parent[n - 1].i + 1]
                        IN  /\ Proceed(CatchEntry(parent, crawl.answer.err,
                                              crawl.remainingOk))
                            /\ failures' = Append(failures,
                                              [id |-> entry.id,
                                               err |-> crawl.answer.err])

\* downloadFile returned or threw: the loop resumes
EntryReturned ==
    /\ crawl.pc = "download"
    /\ dl.pc \in {"returned", "failed"}
    /\ LET top   == crawl.stack[Len(crawl.stack)]
           entry == top.entries[top.i + 1]
       IN  IF dl.pc = "returned"
           THEN /\ Proceed(AfterSuccess(crawl.stack))
                /\ completed' = completed \cup {dl.result}
                /\ UNCHANGED failures
           ELSE /\ Proceed(CatchEntry(crawl.stack, dl.err, crawl.remainingOk))
                /\ failures' = Append(failures,
                                      [id |-> entry.id, err |-> dl.err])
                /\ UNCHANGED completed
    /\ UNCHANGED <<dvars, fetches, attempted, listed, listing, calc>>

\* the delay between two entries is over: i += 1 and the next entry
CrawlWake ==
    /\ crawl.pc = "delay"
    /\ LET n == Len(crawl.stack)
       IN  BeginEntry([crawl.stack EXCEPT ![n].i = @ + 1])
    /\ UNCHANGED <<failures, listed, listing, calc, completed>>


\* ------------------------------------------------------------------------
\* The download specification: a session of downloadFile calls against a
\* server that may answer every request in any way
\* ------------------------------------------------------------------------
FileIds == {"f1"}

DirName == <<"dl">>

ReportPdf == <<"report", ".pdf">>

OutBin == <<"out", ".bin">>

\* the output arguments: none, an existing directory, a file path
Outputs == {NoPath, <<DirName>>, <<DirName, OutBin>>, <<DirName, ReportPdf>>}

\* the file name the content-disposition header yields (none: NoName)
InferredNames == {NoName, ReportPdf}

SetCookies == {<<>>, <<<<"NID", "1">>>>}

Bodies ==
    {Body({}, NoToken, NoToken), Body({"rate"}, NoToken, NoToken),
     Body({"perm"}, NoToken, NoToken), Body({"notfound"}, NoToken, NoToken),
     Body({"rate", "perm"}, NoToken, NoToken),
     Body({"perm", "notfound"}, NoToken, NoToken),
     Body({}, "t1", NoToken), Body({}, NoToken, "t2"), Body({}, "t1", "t2"),
     Body({"notfound"}, "t1", NoToken)}

\* the responses that are neither 429, nor a redirect, nor a download:
\* every body with status 200, and the plain, the rate-limit and a token
\* body with each error status
BodyResponses ==
    {<<200, b>> : b \in Bodies}
    \cup {<<st, b>> : st \in {403, 404, 500},
                      b \in {Body({}, NoToken, NoToken),
                             Body({"rate"}, NoToken, NoToken),
                             Body({}, "t1", NoToken)}}

ValidRecord ==
    [id |-> "f1", name |-> ReportPdf, size |-> Len("c1"),
     hash |-> calculateFileHash("c1")]

\* the record of a download whose content has changed on the server since
StaleRecord ==
    [id |-> "f1", name |-> ReportPdf, size |-> Len("c0"),
     hash |-> calculateFileHash("c0")]

\* a fresh destination, or one that holds an earlier verified download
InitStores ==
    {[files |-> <<>>, cache |-> {}],
     [files |-> (<<DirName, ReportPdf>> :> "c1"), cache |-> {ValidRecord}],
     [files |-> <<>>, cache |-> {StaleRecord}]}

InitCommon ==
    /\ dirs = {NoPath, <<DirName>>}
    /\ dl = DlIdle
    /\ jar = <<>>
    /\ seen = <<>>
    /\ lastReq = [header |-> {}, expect |-> {}]
    /\ calls = 0
    /\ partials = 0
    /\ prev = [status |-> "idle", id |-> "", output |-> NoPath,
               verify |-> FALSE, result |-> NoPath, hash |-> <<>>,
               cache |-> {}, cookieStore |-> {}]
    /\ filesAtStart = <<>>
    /\ crawl = CrawlIdle
    /\ fetches = <<>>
    /\ attempted = <<>>
    /\ failures = <<>>
    /\ listed = {}
    /\ completed = {}

CalcIdle == [pc |-> "idle", input |-> <<>>, output |-> <<>>]

ListingIdle ==
    [pc |-> "idle", html |-> <<>>, quiet |-> FALSE, entries |-> <<>>,
     warnings |-> 0]

Init ==
    /\ \E st \in InitStores : files = st.files /\ cache = st.cache
    /\ cookieStore = {<<"NID", "0">>}
    /\ listing = ListingIdle
    /\ calc = CalcIdle
    /\ InitCommon

\* one downloadFile call, answered in any way
Next ==
    \/ \E id \in FileIds, output \in Outputs \ {<<DirName, ReportPdf>>},
          verify \in BOOLEAN,
          noCookies \in BOOLEAN :
          /\ calls < 1
          /\ Call(id, "", output, verify, noCookies, TRUE)
          /\ UNCHANGED cvars
    \/ Wake /\ UNCHANGED cvars
    \/ \E c \in SetCookies : Respond429(c) /\ UNCHANGED cvars
    \/ \E c \in SetCookies, location \in 0..MaxHops :
          RespondRedirect(c, location) /\ UNCHANGED cvars
    \/ \E c \in SetCookies, r \in BodyResponses :
          RespondBody(c, r[1], r[2]) /\ UNCHANGED cvars
    \/ \E c \in SetCookies, m \in BOOLEAN :
          RequestError(c, m) /\ UNCHANGED cvars
    \/ \E c \in SetCookies : RequestTimeout(c) /\ UNCHANGED cvars
    \/ \E c \in SetCookies, n \in InferredNames, ok, hashOk \in BOOLEAN :
          RespondDownload(c, n, "c1", ok, hashOk) /\ UNCHANGED cvars

vars == <<dvars, cvars>>

Spec == Init /\ [][Next]_vars


\* ------------------------------------------------------------------------
\* The attempts specification: one downloadFile call without cookies and
\* without verify, answered in any way; every request is answered in the
\* end, by a response, an error or the timeout, and every timer fires
\* ------------------------------------------------------------------------
AttemptsNext ==
    \/ /\ calls < 1
       /\ Call("f1", "", <<DirName>>, FALSE, TRUE, TRUE)
       /\ UNCHANGED cvars
    \/ Wake /\ UNCHANGED cvars
    \/ Respond429(<<>>) /\ UNCHANGED cvars
    \/ \E location \in 0..MaxHops :
          RespondRedirect(<<>>, location) /\ UNCHANGED cvars
    \/ \E r \in BodyResponses :
          RespondBody(<<>>, r[1], r[2]) /\ UNCHANGED cvars
    \/ \E m \in BOOLEAN : RequestError(<<>>, m) /\ UNCHANGED cvars
    \/ RequestTimeout(<<>>) /\ UNCHANGED cvars
    \/ \E ok \in BOOLEAN :
          RespondDownload(<<>>, NoName, "c1", ok, TRUE) /\ UNCHANGED cvars

\* the request that is out is answered
Answer ==
    /\ dl.pc = "wait"
    /\ AttemptsNext

Fairness ==
    /\ WF_vars(Wake /\ UNCHANGED cvars)
    /\ WF_vars(Answer)

SpecAttempts == Init /\ [][AttemptsNext]_vars /\ Fairness

\* ------------------------------------------------------------------------
\* The session specification: successive downloadFile calls with the same
\* output argument, against a server that answers with the file or stalls,
\* and a user who may edit the files between two calls
\* ------------------------------------------------------------------------
SessionInit ==
    /\ files \in {<<>>,
                  (<<DirName, ReportPdf>> :> "old"),
                  (<<DirName, ReportPdf>> :> "old")
                     @@ (<<DirName, <<"report", "(1)", ".pdf">>>> :> "old")}
    /\ cache = {}
    /\ cookieStore = {<<"NID", "0">>}
    /\ listing = ListingIdle
    /\ calc = CalcIdle
    /\ InitCommon

SessionNext ==
    \/ \E id \in FileIds, output \in Outputs, verify \in BOOLEAN :
          /\ calls < MaxCalls
          /\ calls > 0 => output = dl.output
          /\ Call(id, "", output, verify, FALSE, TRUE)
          /\ UNCHANGED cvars
    \/ Wake /\ UNCHANGED cvars
    \/ RequestTimeout(<<>>) /\ UNCHANGED cvars
    \/ \E n \in InferredNames, ok \in BOOLEAN :
          RespondDownload(<<>>, n, "c1", ok, TRUE) /\ UNCHANGED cvars
    \/ \E p \in DOMAIN files : Modify(p) /\ UNCHANGED cvars

SpecSession == SessionInit /\ [][SessionNext]_vars


\* ------------------------------------------------------------------------
\* The listing specification: fetchDriveFolderEntries parses one page of up
\* to MaxPage matches, one of which may carry no id
\* ------------------------------------------------------------------------
MaxPage == 52

Numbered(i) == <<ToString(i)>>

\* a page of n matches; the match number bad, if any, links to no file
PageOf(n, bad) ==
    [i \in 1..n |-> IF i = bad THEN Match("other", NoId, Numbered(i))
                    ELSE Match("file", ToString(i), Numbered(i))]

ListingInit ==
    /\ \E n \in 0..MaxPage, bad \in 0..MaxPage, quiet \in BOOLEAN :
          /\ bad <= n
          /\ listing = [ListingIdle EXCEPT !.pc = "page",
                           !.html = PageOf(n, bad), !.quiet = quiet]
    /\ calc = CalcIdle
    /\ files = <<>>
    /\ cache = {}
    /\ cookieStore = {}
    /\ InitCommon

\* the page is parsed
ParsePage ==
    /\ listing.pc = "page"
    /\ LET parsed == ParseEntries(listing.html, listing.quiet)
       IN  listing' = [listing EXCEPT !.pc = "parsed",
                          !.entries = parsed.entries,
                          !.warnings = parsed.warnings]
    /\ UNCHANGED <<dvars, calc, crawl, fetches, attempted, failures, listed,
                   completed>>

SpecListing == ListingInit /\ [][ParsePage]_vars

\* ------------------------------------------------------------------------
\* The resolver specification: downloadFile and downloadFolder resolve one
\* reference, a URL or a string that is no URL
\* ------------------------------------------------------------------------
ShortId == "abc"

Id24 == "0123456789abcdefghijklmn"

Id25 == "0123456789ABCDEFGHIJKLMNO"

Id33 == "1a2b3c4d5e6f7g8h9i0j_k-lMnOpQrStU"

Hosts == {"drive.google.com", "docs.google.com", "example.com"}

NonEmpty(run) == run # ""

\* a URL; extra is a run of id characters elsewhere in its query
Url(host, shape, id, idParam, resourcekey, extra) ==
    [isUrl |-> TRUE, host |-> host, shape |-> shape, id |-> id,
     idParam |-> idParam, resourcekey |-> resourcekey,
     runs |-> SelectSeq(<<id, idParam, resourcekey, extra>>, NonEmpty)]

\* a string that new URL() rejects
Text(runs) ==
    [isUrl |-> FALSE, host |-> "", shape |-> "", id |-> "", idParam |-> "",
     resourcekey |-> "", runs |-> runs]

Urls ==
    {Url(h, sh, id, ip, rk, ex) :
        h \in Hosts, sh \in {"file", "folders"} \cup DocShapes,
        id \in {"", ShortId, Id33},
        ip \in {"", "q1"}, rk \in {"", "rk1"}, ex \in {"", Id25}}
    \cup {Url(h, sh, "", ip, rk, ex) :
        h \in Hosts, sh \in {"uc", "open"}, ip \in {"", "q1"},
        rk \in {"", "rk1"}, ex \in {"", Id25}}

Runs == {ShortId, Id24, Id25, Id33}

Texts ==
    {Text(runs) : runs \in {<<>>} \cup {<<a>> : a \in Runs}
                          \cup {<<a, b>> : a, b \in Runs}
                          \cup {<<a, b, c>> : a, b, c \in Runs}}

PureInit ==
    /\ listing = ListingIdle
    /\ files = <<>>
    /\ cache = {}
    /\ cookieStore = {}
    /\ InitCommon

ResolveInit ==
    /\ \E ref \in Urls \cup Texts, optionsId \in {"", "f1"} :
          calc = [CalcIdle EXCEPT !.pc = "reference",
                     !.input = [ref |-> ref, optionsId |-> optionsId]]
    /\ PureInit

\* what every application of a pure function leaves alone
PureFrame ==
    UNCHANGED <<dvars, listing, crawl, fetches, attempted, failures, listed,
                completed>>

\* the reference is resolved
Resolve ==
    /\ calc.pc = "reference"
    /\ calc' = [calc EXCEPT !.pc = "resolved",
                   !.output =
                      [parsed |-> parseGoogleDriveUrl(calc.input.ref),
                       file   |-> ResolveFile(calc.input.ref,
                                              calc.input.optionsId),
                       folder |-> ResolveFolder(calc.input.ref,
                                                calc.input.optionsId)]]
    /\ PureFrame

SpecResolve == ResolveInit /\ [][Resolve]_vars

\* ------------------------------------------------------------------------
\* The backoff specification: the rate-limit delays of downloadFile and of
\* fetchText at an attempt number and at the one after it
\* ------------------------------------------------------------------------
BackoffInit ==
    /\ \E attempt \in 0..(maxAttempts - 1), retryCount \in 0..maxRetries :
          calc = [CalcIdle EXCEPT !.pc = "attempt",
                     !.input = [attempt |-> attempt,
                                retryCount |-> retryCount]]
    /\ PureInit

\* the delays are computed
Backoff ==
    /\ calc.pc = "attempt"
    /\ LET attempt    == calc.input.attempt
           retryCount == calc.input.retryCount
       IN  calc' = [calc EXCEPT !.pc = "delays",
                       !.output =
                          [download |-> RateLimitDelay(attempt),
                           downloadAfter |->
                              RateLimitDelay(Min(attempt + 1, maxAttempts - 1)),
                           fetch |-> RateBackoff(retryCount),
                           fetchAfter |->
                              RateBackoff(Min(retryCount + 1, maxRetries))]]
    /\ PureFrame

SpecBackoff == BackoffInit /\ [][Backoff]_vars

\* ------------------------------------------------------------------------
\* The token specification: extractConfirmToken is applied twice to a body
\* ------------------------------------------------------------------------
Phrases == {"rate", "perm", "notfound"}

Tokens == {NoToken, "t1", "t2"}

TokenInit ==
    /\ \E has \in SUBSET Phrases, link \in Tokens, form \in Tokens :
          calc = [CalcIdle EXCEPT !.pc = "body",
                     !.input = Body(has, link, form)]
    /\ PureInit

\* the token is extracted, and extracted again
Extract ==
    /\ calc.pc = "body"
    /\ calc' = [calc EXCEPT !.pc = "token",
                   !.output = [first |-> extractConfirmToken(calc.input),
                               again |-> extractConfirmToken(calc.input)]]
    /\ PureFrame

SpecToken == TokenInit /\ [][Extract]_vars

\* ------------------------------------------------------------------------
\* The classification specification: a downloadFile call that has been rate
\* limited on its earlier attempts receives one response, drawn as a status,
\* the presence of a location and of a content-disposition header, and a
\* body
\* ------------------------------------------------------------------------
Statuses == {200, 302, 403, 404, 429, 500}

\* the attempts at which the response arrives: the first, one in the
\* middle, the last
ClassifyAttempts == {0, 7, maxAttempts - 1}

\* the call after n attempts that were answered with status 429
RECURSIVE RateLimitedTimes(_, _)
RateLimitedTimes(d, n) ==
    IF n = 0 THEN d
    ELSE RateLimitedTimes(
             NextIteration(OnResult(d, <<>>, 429,
                                    Body({"rate"}, NoToken, NoToken)), <<>>),
             n - 1)

\* downloadFile("f1", "dl", { id: "f1", noCookies: true }) at its first
\* request
FirstRequest ==
    LoopHead([DlIdle EXCEPT !.id = "f1", !.output = <<DirName>>,
                 !.noCookies = TRUE, !.destDir = <<DirName>>], <<>>)

ClassifyInit ==
    /\ \E statusCode \in Statuses, location \in BOOLEAN,
          disposition \in BOOLEAN, has \in SUBSET Phrases,
          link \in Tokens, form \in Tokens :
          calc = [CalcIdle EXCEPT !.pc = "response",
                     !.input = [statusCode |-> statusCode,
                                location |-> location,
                                disposition |-> disposition,
                                body |-> Body(has, link, form)]]
    /\ \E attempt \in ClassifyAttempts :
          dl = RateLimitedTimes(FirstRequest, attempt)
    /\ files = <<>>
    /\ dirs = {NoPath, <<DirName>>}
    /\ cache = {}
    /\ cookieStore = {}
    /\ jar = <<>>
    /\ seen = <<>>
    /\ lastReq = [header |-> {}, expect |-> {}]
    /\ calls = 1
    /\ partials = 0
    /\ prev = [status |-> "idle", id |-> "", output |-> NoPath,
               verify |-> FALSE, result |-> NoPath, hash |-> <<>>,
               cache |-> {}, cookieStore |-> {}]
    /\ filesAtStart = <<>>
    /\ listing = ListingIdle
    /\ crawl = CrawlIdle
    /\ fetches = <<>>
    /\ attempted = <<>>
    /\ failures = <<>>
    /\ listed = {}
    /\ completed = {}

\* the response drawn is of this kind and is handled now
Answered(kind) ==
    /\ calc.pc = "response"
    /\ ResponseKind(calc.input.statusCode, calc.input.location,
                    calc.input.disposition) = kind
    /\ calc' = [calc EXCEPT !.pc = "answered"]
    /\ UNCHANGED <<listing, crawl, fetches, attempted, failures, listed,
                   completed>>

ClassifyNext ==
    \/ Answered("429") /\ Respond429(<<>>)
    \/ Answered("redirect")
          /\ \E location \in 0..MaxHops : RespondRedirect(<<>>, location)
    \/ Answered("download")
          /\ RespondDownload(<<>>, ReportPdf, "c1", TRUE, TRUE)
    \/ Answered("body")
          /\ RespondBody(<<>>, calc.input.statusCode, calc.input.body)

SpecClassify == ClassifyInit /\ [][ClassifyNext]_vars

\* ------------------------------------------------------------------------
\* The cookie specification: the Set-Cookie headers of one response are
\* merged into a jar that was loaded from the cookie store
\* ------------------------------------------------------------------------
MaxLines == 3

\* the entries of a Set-Cookie header list: plain, padded with blanks,
\* without a value, without a name, with a blank value
CookieEntries ==
    {<<"NID", "1">>, <<"NID", " 2 ">>, <<" SID", "1">>, <<"NID", "">>,
     <<"", "x">>, <<"NID", " ">>}

CookiesInit ==
    /\ \E store \in {{}, {<<"NID", "0">>}, {<<"NID", "0">>, <<"SID", "9">>}},
          n \in 0..MaxLines :
          \E lines \in [1..n -> CookieEntries] :
             calc = [CalcIdle EXCEPT !.pc = "headers",
                        !.input = [jar |-> loadCookies(store),
                                   setCookieHeaders |-> lines]]
    /\ PureInit

\* the headers are merged into the jar
Merge ==
    /\ calc.pc = "headers"
    /\ calc' = [calc EXCEPT !.pc = "merged",
                   !.output =
                      updateCookiesFromHeaders(calc.input.jar,
                                               calc.input.setCookieHeaders)]
    /\ PureFrame

SpecCookies == CookiesInit /\ [][Merge]_vars

\* ------------------------------------------------------------------------
\* The crawl specification: downloadFolder on a remote folder that holds a
\* file, a subfolder with one file, and another file, against a server that
\* answers a listing request in any way and a download request with the
\* file or not at all
\* ------------------------------------------------------------------------
BinName(n) == <<n, ".bin">>

RemotePage(folderId) ==
    CASE folderId = "root" ->
             <<Match("file", "a", BinName("a")),
               Match("folders", "S", <<"sub">>),
               MatchKey("idparam", "b", NoName, "rkb")>>
      [] folderId = "S" -> <<MatchKey("file", "c", BinName("c"), "rkc")>>
      [] OTHER -> <<>>

OutDir == <<<<"out">>>>

\* the statuses of 400 and more, other than 429, that a listing is answered
ErrorStatuses == {403, 500}

CrawlInit ==
    /\ files = <<>>
    /\ cache = {}
    /\ cookieStore = {<<"NID", "0">>}
    /\ listing = ListingIdle
    /\ calc = CalcIdle
    /\ InitCommon

CrawlNext ==
    \/ \E remainingOk \in BOOLEAN :
          StartCrawl("root", OutDir, remainingOk, FALSE)
    \/ ListingReturned
    \/ EntryReturned
    \/ CrawlWake
    \/ \E k \in DOMAIN fetches, c \in SetCookies : FetchRedirect(k, c)
    \/ \E k \in DOMAIN fetches : Fetch429(k, <<>>)
    \/ \E k \in DOMAIN fetches, statusCode \in ErrorStatuses :
          FetchHttpError(k, <<>>, statusCode)
    \/ \E k \in DOMAIN fetches, c \in SetCookies, decodes \in BOOLEAN :
          FetchOk(k, c, RemotePage(fetches[k].folder), decodes)
    \/ \E k \in DOMAIN fetches : FetchNetError(k)
    \/ \E k \in DOMAIN fetches, early \in BOOLEAN : FetchTimeout(k, early)
    \/ \E k \in DOMAIN fetches : FetchWake(k)
    \/ Wake /\ UNCHANGED cvars
    \/ RequestTimeout(<<>>) /\ UNCHANGED cvars
    \/ \E c \in SetCookies, ok \in BOOLEAN :
          RespondDownload(c, NoName, "c1", ok, TRUE) /\ UNCHANGED cvars

SpecCrawl == CrawlInit /\ [][CrawlNext]_vars

\* ------------------------------------------------------------------------
\* The titles specification: downloadFolder into dl/in/out on a remote
\* folder that holds a subfolder and a file, the subfolder holding a file;
\* the server gives every entry of a page any title, and every listing and
\* every download succeeds
\* ------------------------------------------------------------------------
Target == <<DirName, <<"in">>, <<"out">>>>

\* a plain title, none, the dot names bare and blank-padded, and titles
\* with a path separator
Titles ==
    {<<"sub">>, NoName, <<".">>, <<"..">>, <<" ", "..">>, <<"a", "/", "b">>,
     <<"..", "/", "x">>}

TitledPage(folderId, folderTitle, fileTitle) ==
    CASE folderId = "root" ->
             <<Match("folders", "S", folderTitle),
               Match("file", "a", fileTitle)>>
      [] folderId = "S" -> <<Match("file", "c", fileTitle)>>
      [] OTHER -> <<>>

TitlesNext ==
    \/ \E remainingOk \in BOOLEAN :
          StartCrawl("root", Target, remainingOk, FALSE)
    \/ ListingReturned
    \/ EntryReturned
    \/ CrawlWake
    \/ \E k \in DOMAIN fetches, folderTitle \in Titles, fileTitle \in Titles :
          FetchOk(k, <<>>,
                  TitledPage(fetches[k].folder, folderTitle, fileTitle), TRUE)
    \/ RespondDownload(<<>>, NoName, "c1", TRUE, TRUE) /\ UNCHANGED cvars

SpecTitles == CrawlInit /\ [][TitlesNext]_vars

\* ------------------------------------------------------------------------
\* The cycle specification: downloadFolder on a remote folder that holds a
\* file and a subfolder, the subfolder holding a link to the folder above
\* it; a listing is answered with its page, with status 429 or with an
\* error, a download with the file
\* ------------------------------------------------------------------------
CyclicPage(folderId) ==
    CASE folderId = "root" ->
             <<Match("file", "a", BinName("a")),
               Match("folders", "S", <<"sub">>)>>
      [] folderId = "S" -> <<Match("folders", "root", <<"back">>)>>
      [] OTHER -> <<>>

CycleNext ==
    \/ \E remainingOk \in BOOLEAN :
          StartCrawl("root", OutDir, remainingOk, FALSE)
    \/ ListingReturned
    \/ EntryReturned
    \/ CrawlWake
    \/ \E k \in DOMAIN fetches, c \in SetCookies :
          FetchOk(k, c, CyclicPage(fetches[k].folder), TRUE)
    \/ \E k \in DOMAIN fetches : Fetch429(k, <<>>)
    \/ \E k \in DOMAIN fetches : FetchWake(k)
    \/ \E k \in DOMAIN fetches : FetchHttpError(k, <<>>, 403)
    \/ RespondDownload(<<>>, NoName, "c1", TRUE, TRUE) /\ UNCHANGED cvars

SpecCycle == CrawlInit /\ [][CycleNext]_vars

\* ------------------------------------------------------------------------
\* The delay specification: the entry at index i of a folder of n entries,
\* the top-level folder or a subfolder, has succeeded or failed, and the
\* loop of downloadFolderRecursive decides what comes next
\* ------------------------------------------------------------------------
MaxEntries == 22

\* the frame of a folder of n entries whose loop is at index i
FrameAt(folderId, n, i) ==
    [Frame(folderId, OutDir) EXCEPT
        !.entries = ParseEntries(PageOf(n, 0), TRUE).entries, !.i = i]

\* the stacks: the folder alone, or below a parent folder of two entries
\* whose first or whose last entry it is
Stacks(n, i) ==
    {<<FrameAt("S", n, i)>>,
     <<FrameAt("root", 2, 0), FrameAt("S", n, i)>>,
     <<FrameAt("root", 2, 1), FrameAt("S", n, i)>>}

DelayInit ==
    /\ \E n \in 1..MaxEntries, i \in 0..(MaxEntries - 1),
          failed \in BOOLEAN, remainingOk \in BOOLEAN :
          /\ i < n
          /\ \E stack \in Stacks(n, i) :
                calc = [CalcIdle EXCEPT !.pc = "entry",
                           !.input = [stack |-> stack, failed |-> failed,
                                      remainingOk |-> remainingOk]]
    /\ PureInit

\* the end of the try block, or the catch block
EntryDone ==
    /\ calc.pc = "entry"
    /\ calc' = [calc EXCEPT !.pc = "delayed",
                   !.output =
                      IF calc.input.failed
                      THEN CatchEntry(calc.input.stack, "Error",
                                      calc.input.remainingOk)
                      ELSE AfterSuccess(calc.input.stack)]
    /\ PureFrame

SpecDelay == DelayInit /\ [][EntryDone]_vars

\* ------------------------------------------------------------------------
\* Properties of one downloadFile call (specification Spec)
\* ------------------------------------------------------------------------

\* C1: a response classified DENIED or MISSING makes the call fail at once
\* with PermissionError respectively FileNotFoundError: the call is never
\* found sleeping a backoff or issuing a request after such a response.
C1_FatalAtOnce ==
    /\ dl.class = "DENIED" => dl.pc = "failed" /\ dl.err = "PermissionError"
    /\ dl.class = "MISSING" => dl.pc = "failed" /\ dl.err = "FileNotFoundError"

\* C2: one call issues at most 15 requests from its attempt loop, whatever
\* the outcomes were, and a call that issued requests returns a path only
\* from an attempt that reached COMPLETE; after 15 attempts without
\* COMPLETE the call is over only as a failure.
C2_AtMostFifteenAttempts ==
    /\ dl.reqs <= maxAttempts
    /\ dl.attempt <= maxAttempts
    /\ dl.pc = "returned" /\ dl.reqs > 0 => dl.class = "COMPLETE"
    /\ dl.reqs = maxAttempts /\ dl.class # "COMPLETE"
          /\ dl.pc \notin {"wait", "sleep"} => dl.pc = "failed"

\* a call that used all 15 attempts on different outcomes (a token was
\* adopted, not every answer was a rate limit) and failed
C2_Witness ==
    /\ dl.pc = "failed"
    /\ dl.reqs = maxAttempts
    /\ dl.confirmToken # NoToken
    /\ ~dl.onlyRate

\* C4: a call whose 15 attempts were all answered with rate limiting
\* fails with RateLimitError.
C4_RateLimitErrorOnExhaustion ==
    dl.pc = "failed" /\ dl.onlyRate /\ dl.reqs = maxAttempts
        => dl.err = "RateLimitError"


\* ------------------------------------------------------------------------
\* Properties of the attempts of one call (specification SpecAttempts)
\* ------------------------------------------------------------------------

\* C24: the first request of a call carries no confirm parameter; every
\* request carries the token the call holds, which is the token of the last
\* response a token was extracted from; the token is never cleared; and a
\* response a token is adopted from is followed by a delay of
\* min(2000 + 1000 * attempt, 15000) ms and the next attempt, or by the end
\* of the loop.
C24_TokenCarried ==
    [][/\ (dl'.pc = "wait" /\ dl'.reqs = 1) => dl'.reqConfirm = NoToken
       /\ dl'.pc = "wait" =>
              /\ dl'.reqConfirm = dl'.confirmToken
              /\ dl'.reqs = dl'.attempt + 1
       /\ dl.pc \in {"wait", "sleep"} =>
              /\ dl.confirmToken # NoToken => dl'.confirmToken # NoToken
              /\ IF dl.pc = "wait" /\ dl'.class = "NEED_TOKEN"
                 THEN /\ dl'.bodyToken # NoToken
                      /\ dl'.confirmToken = dl'.bodyToken
                      /\ IF dl.attempt < 14
                         THEN /\ dl'.pc = "sleep"
                              /\ dl'.delay
                                    = Min(2000 + 1000 * dl.attempt, 15000)
                         ELSE dl'.pc = "failed" /\ dl'.err = "Exceeded"
                 ELSE dl'.confirmToken = dl.confirmToken
              /\ dl.pc = "sleep" =>
                     /\ dl'.attempt = dl.attempt + 1
                     /\ dl'.pc = "wait" => dl'.reqs = dl.reqs + 1
      ]_vars

\* the last request of a call carries the token of a form field
C24_Witness ==
    /\ dl.pc = "wait"
    /\ dl.reqs = maxAttempts
    /\ dl.reqConfirm = "t2"

RECURSIVE Pow3(_)
Pow3(n) == IF n = 0 THEN 1 ELSE 3 * Pow3(n - 1)

\* min(base * 1.5^attempt, cap) in whole ms, for the bases 2000 and 3000
\* and their caps, which 1.5^6 exceeds
Times15(base, attempt, cap) ==
    IF attempt >= 6 THEN cap
    ELSE Min((base * Pow3(attempt)) \div Pow2(attempt), cap)

\* C25: an attempt that yields a body without a token, or that ends in an
\* error without rate-limit wording, is followed by a delay of
\* min(3000 * 1.5^attempt, 30000) respectively min(2000 * 1.5^attempt,
\* 20000) ms and another attempt, unless it is the 15th: then the call
\* fails, with the no-token error respectively with the error itself.
C25_FinalAttemptOutcome ==
    [][/\ dl'.class = "NO_TOKEN" =>
              IF dl'.attempt = 14
              THEN dl'.pc = "failed" /\ dl'.err = "NoTokenError"
              ELSE /\ dl'.pc = "sleep"
                   /\ dl'.delay = Times15(3000, dl'.attempt, 30000)
       /\ dl'.class = "ERROR" =>
              IF dl'.attempt = 14
              THEN dl'.pc = "failed" /\ dl'.err = dl'.cause
              ELSE /\ dl'.pc = "sleep"
                   /\ dl'.delay = Times15(2000, dl'.attempt, 20000)
       /\ (dl.pc = "sleep" /\ dl.class \in {"NO_TOKEN", "ERROR"}) =>
              /\ dl'.pc = "wait"
              /\ dl'.attempt = dl.attempt + 1
              /\ dl'.reqs = dl.reqs + 1
      ]_vars

\* the 15th attempt timed out and the call failed with the timeout
C25_Witness ==
    /\ dl.pc = "failed"
    /\ dl.reqs = maxAttempts
    /\ dl.class = "ERROR"
    /\ dl.err = "Timeout"

\* C30: a downloadFile call whose requests are all answered returns or
\* fails in the end.
C30_CallTerminates == (dl.pc = "wait") ~> (dl.pc \in {"returned", "failed"})

\* C34: downloadFile never sleeps after its 15th attempt: once the outcome
\* of the last attempt is known, the call ends without a further delay.
C34_NoWaitAfterLast == dl.pc = "sleep" => dl.attempt < maxAttempts - 1

\* ------------------------------------------------------------------------
\* Properties of successive calls (specification SpecSession)
\* ------------------------------------------------------------------------

\* the current call repeats, with verify, a verified call that succeeded
RepeatsVerified ==
    /\ prev.status = "returned"
    /\ prev.verify
    /\ dl.verify
    /\ dl.id = prev.id
    /\ dl.output = prev.output

\* the file the previous call returned still hashes to what it had then
Unmodified ==
    /\ prev.result \in DOMAIN filesAtStart
    /\ calculateFileHash(filesAtStart[prev.result]) = prev.hash

\* C3: a call that repeats a successful verified call with the same id and
\* output issues no request and returns when the file is unmodified, and
\* issues a request when the file's hash no longer matches, whether the
\* output is a directory or a file path.
C3_RoundTrip ==
    RepeatsVerified =>
        IF Unmodified THEN dl.pc = "returned" /\ dl.reqs = 0
        ELSE dl.reqs > 0

\* the names a download found in its destination directory
NamesBefore == {lastname(q) : q \in dl.dirBefore}

Candidate(n) ==
    LET ext == extname(dl.desired)
    IN  basename(dl.desired, ext) \o <<CounterText(n)>> \o ext

\* C8: the name a download is written under is the desired name when the
\* directory holds no such entry, and otherwise "base (n)ext" for the
\* smallest n >= 1 that is free; it is never the name of a file that
\* existed when the call started.
C8_UniqueName ==
    dl.desired # NoName =>
        /\ dl.desired \notin NamesBefore => dl.finalName = dl.desired
        /\ dl.desired \in NamesBefore =>
              \E n \in 1..(Cardinality(NamesBefore) + 1) :
                  /\ dl.finalName = Candidate(n)
                  /\ Candidate(n) \notin NamesBefore
                  /\ \A m \in 1..(n - 1) : Candidate(m) \in NamesBefore
        /\ join(dl.destDir, dl.finalName) \notin DOMAIN filesAtStart
        /\ \A q \in DOMAIN filesAtStart :
              q \in DOMAIN files /\ files[q] \in {filesAtStart[q], "edited"}

\* report.pdf and "report (1).pdf" exist and the download resolving to
\* report.pdf was completed as "report (2).pdf"
C8_Witness ==
    /\ dl.pc = "returned"
    /\ dl.class = "COMPLETE"
    /\ dl.desired = ReportPdf
    /\ dl.result = <<DirName, <<"report", "(2)", ".pdf">>>>
    /\ {ReportPdf, <<"report", "(1)", ".pdf">>} \subseteq NamesBefore


\* ------------------------------------------------------------------------
\* Properties of the stores of one downloadFile call (specification Spec);
\* prev.cache and prev.cookieStore are the stores when the call began
\* ------------------------------------------------------------------------

\* the file the last download response was streamed to
WrittenPath == join(dl.destDir, dl.finalName)

\* the last download response was streamed to its end
StreamCompleted ==
    /\ dl.finalName # NoName
    /\ WrittenPath \in DOMAIN files
    /\ files[WrittenPath] # "partial"

\* C11: with verify, a completed download whose hash differs from the hash
\* cached for its id makes the call fail with VerificationError, and the
\* downloaded file stays.
C11_MismatchReported ==
    (/\ dl.verify
     /\ dl.class = "COMPLETE"
     /\ StreamCompleted
     /\ \E m \in prev.cache :
           /\ m.id = dl.id
           /\ m.hash # calculateFileHash(files[WrittenPath]))
    => (dl.pc = "failed" /\ dl.err = "VerificationError")

\* C13: a completed download whose output argument names a path that was
\* neither a directory nor a file returns that path, and the file is there.
C13_OutputPathHonoured ==
    (/\ dl.pc = "returned"
     /\ dl.class = "COMPLETE"
     /\ dl.output # NoPath
     /\ dl.preferredName # NoName
     /\ dl.output \notin DOMAIN filesAtStart)
    => (dl.result = dl.output /\ dl.output \in DOMAIN files)

\* C18: once the content of a download has been written the call returns:
\* no storage failure makes it fail or repeat the download.
C18_StorageFailuresHarmless == StreamCompleted => dl.pc = "returned"

\* the files that are there now and were not when the call started
NewFiles == DOMAIN files \ DOMAIN filesAtStart

\* C33: a call that returns after a download has created exactly one new
\* file, the one at the returned path; a call that fails has created none;
\* an attempt that failed after its output file was opened leaves no
\* partial file behind.
C33_FileEffects ==
    /\ (dl.pc = "returned" /\ ~dl.short) => NewFiles = {dl.result}
    /\ dl.pc = "failed" => NewFiles = {}
    /\ dl.pc \in {"sleep", "failed", "returned"} =>
           \A q \in NewFiles : files[q] # "partial"

\* C19: without verify the call leaves the cache as it was, never returns
\* without a request; with verify a completed download replaces the record
\* of its id by the name, size and hash of the file it wrote, and a failed
\* call leaves the cache as it was.
C19_CacheOnlyWithVerify ==
    /\ (dl.pc # "idle" /\ ~dl.verify) =>
           /\ cache = prev.cache
           /\ ~dl.short
           /\ dl.pc \in {"returned", "failed"} => dl.reqs >= 1
    /\ (dl.verify /\ dl.pc = "returned" /\ dl.class = "COMPLETE") =>
           cache = {m \in prev.cache : m.id # dl.id}
                   \cup {[id |-> dl.id, name |-> lastname(dl.result),
                          size |-> Len(files[dl.result]),
                          hash |-> calculateFileHash(files[dl.result])]}
    /\ dl.pc = "failed" => cache = prev.cache

\* a verified download replaced the record of an earlier download
C19_Witness ==
    /\ dl.verify
    /\ dl.pc = "returned"
    /\ dl.class = "COMPLETE"
    /\ prev.cache = {StaleRecord}
    /\ cache # prev.cache

\* C20: a call that returns a completed download with cookies enabled has
\* written its jar to the cookie store; a call that failed, a call that was
\* short-circuited by the pre-check, and a call with noCookies leave the
\* store as it was when the call began.
C20_StoreWrittenOnComplete ==
    /\ (dl.pc = "returned" /\ dl.class = "COMPLETE" /\ ~dl.noCookies) =>
           cookieStore = saveCookies(jar)
    /\ (\/ dl.pc = "failed"
        \/ dl.pc = "returned" /\ dl.short
        \/ dl.pc # "idle" /\ dl.noCookies) =>
           cookieStore = prev.cookieStore

\* ------------------------------------------------------------------------
\* Properties of a folder crawl (specification SpecCrawl)
\* ------------------------------------------------------------------------
RootId == "root"

\* the crawl began the entry with this id
Attempted(id) == \E n \in DOMAIN attempted : attempted[n] = id

\* the crawl awaits no request and no timer
CrawlQuiet ==
    /\ dl.pc \in {"idle", "returned", "failed"}
    /\ \A k \in DOMAIN fetches : ~fetches[k].attached

\* C5: with remainingOk false the first entry that fails, at any depth,
\* aborts the crawl: downloadFolder has failed with the error of that entry,
\* the failing entry is the last one that was begun, the crawl awaits
\* nothing any more, and every file a download returned is still there.
C5_FirstFailureAborts ==
    (~crawl.remainingOk /\ failures # <<>>) =>
        /\ crawl.pc = "failed"
        /\ Len(failures) = 1
        /\ crawl.err = failures[1].err
        /\ attempted[Len(attempted)] = failures[1].id
        /\ CrawlQuiet
        /\ completed \subseteq DOMAIN files

\* the only file of the subfolder failed after the first file was written:
\* the last entry of the top-level folder was never begun
C5_Witness ==
    /\ ~crawl.remainingOk
    /\ crawl.pc = "failed"
    /\ failures # <<>>
    /\ failures[1].id = "c"
    /\ completed # {}
    /\ ~Attempted("b")

\* C6: with remainingOk true a failing entry is swallowed: once the
\* top-level listing was fetched downloadFolder never fails, and when it
\* has returned every entry of every folder whose listing was fetched has
\* been begun, whatever entries failed before it.
C6_FailuresSwallowed ==
    crawl.remainingOk =>
        /\ crawl.pc = "failed" => (failures = <<>> /\ RootId \notin listed)
        /\ crawl.pc = "done" =>
               \A f \in listed :
                  LET entries == ParseEntries(RemotePage(f), crawl.quiet).entries
                  IN  \A n \in DOMAIN entries : Attempted(entries[n].id)

\* the first file and the subfolder failed, and the crawl returned after it
\* began the last file
C6_Witness ==
    /\ crawl.remainingOk
    /\ crawl.pc = "done"
    /\ Len(failures) >= 2
    /\ failures[1].id = "a"
    /\ failures[2].id = "S"
    /\ Attempted("b")

\* C14: fetchText retries a 429 response after min(2000 * 2^retryCount,
\* 60000) ms while fewer than maxRetries retries were made, and then fails
\* with RateLimitError; any other status of 400 or more fails at once, with
\* an error that carries the status: no activation lives on after it.
C14_FetchRetryPolicy ==
    /\ \A k \in DOMAIN fetches :
          /\ fetches[k].retryCount <= 5
          /\ fetches[k].status \in {0, 302, 429}
          /\ (fetches[k].pc = "backoff" /\ fetches[k].cause = "429") =>
                 /\ fetches[k].status = 429
                 /\ fetches[k].retryCount < 5
                 /\ fetches[k].delay
                       = Min(2000 * Pow2(fetches[k].retryCount), 60000)
    /\ crawl.pc = "settled" =>
          /\ crawl.answer.status = 429 =>
                 /\ crawl.answer.err = "RateLimitError"
                 /\ crawl.answer.retries = 5
          /\ crawl.answer.err = "RateLimitError" => crawl.answer.status = 429
          /\ crawl.answer.status \in ErrorStatuses =>
                 /\ ~crawl.answer.ok
                 /\ crawl.answer.err
                       = "HTTP " \o ToString(crawl.answer.status)

\* a listing was rate limited until no retry was left
C14_Witness ==
    /\ crawl.pc = "settled"
    /\ crawl.answer.err = "RateLimitError"
    /\ crawl.answer.retries = 5

\* C21: the retries of fetchText after transport errors and those after 429
\* responses are counted apart: a call fails with RateLimitError only after
\* maxRetries retries that followed a 429, and with the transport error only
\* after maxRetries retries that followed a transport error.
C21_IndependentRetryCounters ==
    crawl.pc = "settled" =>
        /\ crawl.answer.err = "RateLimitError" =>
               crawl.answer.rateRetries = maxRetries
        /\ crawl.answer.err = "TransportError" =>
               crawl.answer.retries - crawl.answer.rateRetries = maxRetries

\* C22: a request that stalls for 60 s is retried like a transport error:
\* the caller of fetchText sees the timeout only when no retry is left, and
\* downloadFile fails with it only on its last attempt.
C22_TimeoutRetried ==
    /\ (crawl.pc = "settled" /\ crawl.answer.err = "Timeout") =>
           crawl.answer.retries = maxRetries
    /\ (dl.pc = "failed" /\ dl.err = "Timeout") =>
           dl.attempt = maxAttempts - 1

\* the entries of a remote folder
Entries(f) == ParseEntries(RemotePage(f), TRUE).entries

\* the ids of a folder's subtree in page order, depth first
RECURSIVE DepthFirst(_, _)
DepthFirst(f, pos) ==
    IF pos > Len(Entries(f)) THEN <<>>
    ELSE LET entry == Entries(f)[pos]
         IN  <<entry.id>>
             \o (IF entry.type = "folder" THEN DepthFirst(entry.id, 1)
                 ELSE <<>>)
             \o DepthFirst(f, pos + 1)

CrawlOrder == DepthFirst(RootId, 1)

Position(id) == CHOOSE n \in DOMAIN CrawlOrder : CrawlOrder[n] = id

\* the folder that lists the entry
ParentOf(id) ==
    CHOOSE f \in {RootId} \cup {CrawlOrder[n] : n \in DOMAIN CrawlOrder} :
        \E n \in DOMAIN Entries(f) : Entries(f)[n].id = id

\* C27: the entries are begun in page order, depth first, each at most
\* once: every entry that comes before a begun entry in that order was
\* begun before it, unless the listing of its folder was never obtained;
\* and a file entry is handed to downloadFile with its own id, its own
\* access key and the path of its sanitized title in the folder's directory.
C27_CrawlOrder ==
    /\ \A n \in DOMAIN attempted :
          /\ \E k \in DOMAIN CrawlOrder : CrawlOrder[k] = attempted[n]
          /\ \A m \in 1..(n - 1) :
                Position(attempted[m]) < Position(attempted[n])
          /\ \A k \in 1..(Position(attempted[n]) - 1) :
                \/ \E m \in 1..(n - 1) : attempted[m] = CrawlOrder[k]
                \/ ParentOf(CrawlOrder[k]) \notin listed
    /\ crawl.pc = "download" =>
          LET top   == crawl.stack[Len(crawl.stack)]
              match == RemotePage(top.folder)[top.i + 1]
          IN  /\ dl.id = match.href.id
              /\ dl.id = attempted[Len(attempted)]
              /\ dl.resourceKey = match.href.resourceKey
              /\ dl.output
                    = join(top.destDir,
                           sanitizeFileName(
                               IF match.title # NoName THEN match.title
                               ELSE <<match.href.id>>, <<match.href.id>>))

\* the crawl went through the subfolder and handed the last file of the
\* top-level folder, with its key, to downloadFile
C27_Witness ==
    /\ crawl.pc = "download"
    /\ attempted = <<"a", "S", "c", "b">>
    /\ dl.id = "b"
    /\ dl.resourceKey = "rkb"

\* the path lies inside the target directory of the crawl
Inside(path) ==
    /\ Len(path) >= Len(Target)
    /\ SubSeq(path, 1, Len(Target)) = Target

\* C32: every directory a crawl creates and every file it writes lies
\* inside its target directory, whatever titles the entries carry.
C32_Containment ==
    /\ \A path \in DOMAIN files : Inside(path)
    /\ \A path \in dirs \ Ancestors(Target) : Inside(path)

\* the folders whose downloadFolderRecursive calls are active, outermost
\* first
ActiveFolders == [n \in 1..Len(crawl.stack) |-> crawl.stack[n].folder]

\* C31: a downloadFolder call returns or fails in the end, also when a
\* listing links to a folder that is being crawled.  A folder has the same
\* page each time it is listed, so a call that enters a folder from within
\* that folder's own call does so again and again: the crawl ends only if
\* no folder is entered while its call is still active, and then the calls
\* nest no deeper than the remote folders are many.
C31_CrawlTerminates ==
    \A m, n \in 1..Len(ActiveFolders) :
        m # n => ActiveFolders[m] # ActiveFolders[n]

\* C9: at most one HTTP request is in flight at any time of a crawl.
C9_OneRequestInFlight == InFlight <= 1

\* C10: the Cookie header of every request holds the cookies set by all
\* the responses the session received before the request was issued.
C10_CookieHeaderReflectsResponses == lastReq.header = lastReq.expect

\* ------------------------------------------------------------------------
\* Properties of the resolver (specification SpecResolve)
\* ------------------------------------------------------------------------

\* the runs of 25 id characters or more
LongRuns(runs) == SelectSeq(runs, LAMBDA run : Len(run) >= 25)

\* the reference is nothing but one run of id characters
BareId(ref) == ~ref.isUrl /\ Len(ref.runs) = 1

\* C12: downloadFolder called with a bare folder id and no options.id
\* resolves the id and goes on to crawl that folder.
C12_BareFolderIdAccepted ==
    (/\ calc.pc = "resolved"
     /\ BareId(calc.input.ref)
     /\ calc.input.optionsId = "")
    => /\ calc.output.folder.err = ""
       /\ calc.output.folder.folderId = calc.input.ref.runs[1]

\* C16: a URL with /file/d/<id>, /drive/folders/<id> or, on the docs host,
\* /<kind>/d/<id> resolves to that id with the kind of the pattern and the
\* resourcekey parameter; a string that is no URL resolves to its first run
\* of 25 id characters or more with kind file, and to nothing when it has
\* no such run, in which case downloadFile throws.
C16_ResolverResults ==
    calc.pc = "resolved" =>
        LET ref == calc.input.ref
            out == calc.output.parsed
        IN  /\ (ref.isUrl /\ ref.shape = "file" /\ ref.id # "") =>
                   out = Parsed(ref.id, "file", ref.resourcekey)
            /\ (ref.isUrl /\ ref.shape = "folders" /\ ref.id # "") =>
                   out = Parsed(ref.id, "folder", ref.resourcekey)
            /\ (/\ ref.isUrl
                /\ ref.host = "docs.google.com"
                /\ ref.shape \in DocShapes
                /\ ref.id # "") =>
                   /\ out.id = ref.id
                   /\ out.resourceKey = ref.resourcekey
                   /\ ref.shape = "document" => out.type = "document"
                   /\ ref.shape = "spreadsheets" => out.type = "spreadsheet"
                   /\ ref.shape = "presentation" => out.type = "presentation"
                   /\ ref.shape = "drawings" => out.type = "drawing"
            /\ (~ref.isUrl /\ LongRuns(ref.runs) # <<>>) =>
                   /\ out.id = LongRuns(ref.runs)[1]
                   /\ out.type = "file"
            /\ (~ref.isUrl /\ LongRuns(ref.runs) = <<>>) =>
                   /\ out = NoParse
                   /\ calc.input.optionsId = "" => calc.output.file.err # ""

\* a string whose first two runs are too short resolved to its third run
C16_Witness ==
    /\ calc.pc = "resolved"
    /\ ~calc.input.ref.isUrl
    /\ calc.input.ref.runs = <<ShortId, Id24, Id33>>
    /\ calc.output.parsed.id = Id33

\* the URL matches a structured pattern: an id in a known path, or an id
\* query parameter
Structured(ref) ==
    \/ ref.shape \in {"file", "folders"} /\ ref.id # ""
    \/ ref.host = "docs.google.com" /\ ref.shape \in DocShapes /\ ref.id # ""
    \/ ref.idParam # ""

\* C28: a valid URL that matches no structured pattern resolves by the
\* fuzzy match only when it holds the service's host name; a valid URL of
\* another host with no structured pattern does not resolve.
C28_ResolverTiering ==
    (/\ calc.pc = "resolved"
     /\ calc.input.ref.isUrl
     /\ ~Structured(calc.input.ref))
    => LET ref == calc.input.ref
       IN  IF ref.host = "drive.google.com" /\ LongRuns(ref.runs) # <<>>
           THEN calc.output.parsed
                   = Parsed(LongRuns(ref.runs)[1], "file", ref.resourcekey)
           ELSE calc.output.parsed = NoParse

\* ------------------------------------------------------------------------
\* Properties of the backoff delays (specification SpecBackoff)
\* ------------------------------------------------------------------------

\* C15: the rate-limit delay of downloadFile for attempts 0..14 and that of
\* fetchText for retry counts 0..5 do not decrease from one attempt to the
\* next and never exceed 120000 ms respectively 60000 ms.
C15_BackoffMonotoneCapped ==
    calc.pc = "delays" =>
        /\ calc.output.download <= calc.output.downloadAfter
        /\ calc.output.download <= 120000
        /\ calc.output.downloadAfter <= 120000
        /\ calc.output.fetch <= calc.output.fetchAfter
        /\ calc.output.fetch <= 60000
        /\ calc.output.fetchAfter <= 60000

\* both delays have reached their cap, which the formula alone would exceed
C15_Witness ==
    /\ calc.pc = "delays"
    /\ calc.input.attempt = 5
    /\ calc.input.retryCount = 5
    /\ calc.output.download = 120000
    /\ calc.output.fetch = 60000

\* ------------------------------------------------------------------------
\* Properties of the token extraction (specification SpecToken)
\* ------------------------------------------------------------------------

Drawn ==
    LET r == calc.input
    IN  [complete |-> r.statusCode = 200 /\ r.disposition,
         redirect |-> r.statusCode = 302 /\ r.location,
         rate     |-> r.statusCode = 429 \/ "rate" \in r.body.has,
         denied   |-> r.statusCode = 403 \/ "perm" \in r.body.has,
         missing  |-> r.statusCode = 404 \/ "notfound" \in r.body.has,
         token    |-> IF r.body.link # NoToken THEN r.body.link
                      ELSE r.body.form]

\* C23: a response is classified COMPLETE (status 200 with a
\* content-disposition header) before RATE_LIMITED (status 429 or a
\* rate-limit phrase) before DENIED before MISSING before the token
\* extraction: a rate-limited response goes to the rate-limit backoff even
\* with status 403 or 404 or denial wording, and a token is adopted only
\* when no earlier class applies.
C23_ClassificationPriority ==
    (calc.pc = "answered" /\ ~Drawn.redirect) =>
        IF Drawn.complete
        THEN dl.class = "COMPLETE" /\ dl.pc = "returned"
        ELSE IF Drawn.rate
        THEN /\ dl.class = "RATE_LIMITED"
             /\ dl.pc = "sleep"
             /\ dl.delay = Min(5000 * Pow2(dl.attempt), 120000)
             /\ dl.confirmToken = NoToken
        ELSE IF Drawn.denied
        THEN dl.class = "DENIED" /\ dl.confirmToken = NoToken
        ELSE IF Drawn.missing
        THEN dl.class = "MISSING" /\ dl.confirmToken = NoToken
        ELSE /\ dl.class = IF Drawn.token # NoToken THEN "NEED_TOKEN"
                           ELSE "NO_TOKEN"
             /\ dl.confirmToken = Drawn.token

\* a response with status 403, rate-limit and denial wording and a token
\* was taken for a rate limit
C23_Witness ==
    /\ calc.pc = "answered"
    /\ calc.input.statusCode = 403
    /\ calc.input.body = Body({"rate", "perm"}, "t1", NoToken)
    /\ dl.class = "RATE_LIMITED"
    /\ dl.pc = "sleep"

\* ------------------------------------------------------------------------
\* Properties of the delay between entries (specification SpecDelay)
\* ------------------------------------------------------------------------

\* C26: after the entry at index i, which is not the last of its folder,
\* the crawler waits 2000, 3000 or 5000 ms when the entry succeeded and
\* 3000, 5000 or 8000 ms when it failed and the failure is tolerated, for
\* i < 5, 5 <= i < 20 and i >= 20; after the last entry of a folder it
\* waits nothing for that folder: the folder is done, and what follows is
\* what follows the subfolder entry of the parent folder, which succeeded.
C26_InterEntryDelay ==
    calc.pc = "delayed" =>
        LET stack  == calc.input.stack
            top    == stack[Len(stack)]
            i      == top.i
            last   == i = Len(top.entries) - 1
            out    == calc.output
            parent == stack[1]
        IN  IF calc.input.failed /\ ~calc.input.remainingOk
            THEN out.act = "failed" /\ out.delay = 0
            ELSE IF ~last
            THEN /\ out.act = "sleep"
                 /\ out.stack = stack
                 /\ out.delay =
                       IF calc.input.failed
                       THEN (IF i < 5 THEN 3000
                             ELSE IF i < 20 THEN 5000 ELSE 8000)
                       ELSE (IF i < 5 THEN 2000
                             ELSE IF i < 20 THEN 3000 ELSE 5000)
            ELSE IF Len(stack) = 1 \/ parent.i = Len(parent.entries) - 1
            THEN out.act = "done" /\ out.delay = 0
            ELSE /\ out.act = "sleep"
                 /\ out.stack = <<parent>>
                 /\ out.delay = 2000

\* the 21st of 22 entries failed, the failure is tolerated and the crawler
\* waits 8000 ms
C26_Witness ==
    /\ calc.pc = "delayed"
    /\ calc.input.failed
    /\ calc.input.remainingOk
    /\ calc.input.stack[Len(calc.input.stack)].i = 20
    /\ calc.output.act = "sleep"
    /\ calc.output.delay = 8000

\* ------------------------------------------------------------------------
\* Properties of the cookie merge (specification SpecCookies)
\* ------------------------------------------------------------------------

\* the entries that set a cookie: those with a name and a value
Setting(lines) == {n \in DOMAIN lines : lines[n][1] # "" /\ lines[n][2] # ""}

\* the last entry that sets this name
LastSetting(lines, name) ==
    CHOOSE n \in Setting(lines) :
        /\ trim(lines[n][1]) = name
        /\ \A m \in Setting(lines) : trim(lines[m][1]) = name => m <= n

ParsedMatches(html) ==
    SelectSeq(html, LAMBDA match : classifyDriveHref(match.href).id # NoId)

\* C7: fetchDriveFolderEntries returns the first 50 parsed entries of the
\* page in page order; it prints one warning when the page holds more than
\* 50 entries and none when it holds 50 or fewer (quiet off).
C7_ListingCap ==
    (listing.pc = "parsed" /\ ~listing.quiet) =>
        LET parsed == ParsedMatches(listing.html)
            n == Min(Len(parsed), 50)
        IN  /\ Len(listing.entries) = n
            /\ \A i \in 1..n : listing.entries[i].id = parsed[i].href.id
            /\ listing.warnings = IF Len(parsed) > 50 THEN 1 ELSE 0

====
